---- MODULE Spec2Model ----
(***************************************************************************)
(* A model of github.com/omnicli/sdk-go: the decoder that builds an Args   *)
(* store from OMNI_ARG_* environment variables (ParseArgs), the typed      *)
(* accessors of the store, and the reflective binder (Fill / FillAll)      *)
(* with the omniarg tag mini-language it relies on.                        *)
(*                                                                         *)
(* Go strings are sequences of one-character strings, so that every        *)
(* conversion (ToLower, Fields, Split, Atoi, SanitizeArgName, ...) is      *)
(* computed character by character as the code computes it.  Pointers are  *)
(* addresses into a heap, so that sharing between the store and the        *)
(* targets is visible.                                                     *)
(***************************************************************************)
EXTENDS Integers, Sequences, FiniteSets, TLC

VARIABLES
    env,      \* the process environment: key (string) -> value (string)
    heap,     \* the Go heap: address -> cell
    phase,    \* "init" before ParseArgs is called, then "returned" or "panicked"
    args,     \* the *Args ParseArgs returned (NilArgs when it returned nil)
    err,      \* the error ParseArgs returned
    targets,  \* the targets handed to ParseArgs, as the caller sees them
    reads,    \* the environment keys looked up, in order
    got,      \* the last accessor call on args and what it returned
    fill      \* the last direct Fill call on args and what it did

vars == <<env, heap, phase, args, err, targets, reads, got, fill>>

-----------------------------------------------------------------------------
(* Characters and the string library calls the code makes.                  *)

LowerChars == <<"a","b","c","d","e","f","g","h","i","j","k","l","m",
                "n","o","p","q","r","s","t","u","v","w","x","y","z">>
UpperChars == <<"A","B","C","D","E","F","G","H","I","J","K","L","M",
                "N","O","P","Q","R","S","T","U","V","W","X","Y","Z">>
DigitChars == <<"0","1","2","3","4","5","6","7","8","9">>

Range(s) == {s[i] : i \in 1..Len(s)}

IndexOf(c, s) == CHOOSE i \in 1..Len(s) : s[i] = c

IsUpper(c) == c \in Range(UpperChars)
IsLower(c) == c \in Range(LowerChars)
IsLetter(c) == IsUpper(c) \/ IsLower(c)
IsNumber(c) == c \in Range(DigitChars)
SpaceChars == {" ", "\t", "\n", "\r"}
IsSpace(c) == c \in SpaceChars

ToLowerRune(c) == IF IsUpper(c) THEN LowerChars[IndexOf(c, UpperChars)] ELSE c
ToUpperRune(c) == IF IsLower(c) THEN UpperChars[IndexOf(c, LowerChars)] ELSE c

ToLower(s) == [i \in 1..Len(s) |-> ToLowerRune(s[i])]
ToUpper(s) == [i \in 1..Len(s) |-> ToUpperRune(s[i])]

RECURSIVE Join(_, _)
Join(parts, sep) ==
    IF Len(parts) = 0 THEN <<>>
    ELSE IF Len(parts) = 1 THEN parts[1]
    ELSE parts[1] \o sep \o Join(Tail(parts), sep)

\* strings.Split(s, sep) for a one-character sep: always at least one part.
RECURSIVE SplitFrom(_, _, _, _)
SplitFrom(s, sep, i, cur) ==
    IF i > Len(s) THEN <<cur>>
    ELSE IF s[i] = sep THEN <<cur>> \o SplitFrom(s, sep, i + 1, <<>>)
    ELSE SplitFrom(s, sep, i + 1, Append(cur, s[i]))

Split(s, sep) == SplitFrom(s, sep, 1, <<>>)

\* strings.Fields(s): the maximal runs of non-space characters.
RECURSIVE FieldsFrom(_, _, _)
FieldsFrom(s, i, cur) ==
    IF i > Len(s) THEN (IF cur = <<>> THEN <<>> ELSE <<cur>>)
    ELSE IF IsSpace(s[i])
         THEN (IF cur = <<>> THEN <<>> ELSE <<cur>>) \o FieldsFrom(s, i + 1, <<>>)
         ELSE FieldsFrom(s, i + 1, Append(cur, s[i]))

Fields(s) == FieldsFrom(s, 1, <<>>)

\* The value of a string of decimal digits.
RECURSIVE DigitsValue(_)
DigitsValue(s) ==
    IF Len(s) = 0 THEN 0
    ELSE 10 * DigitsValue(SubSeq(s, 1, Len(s) - 1)) + (IndexOf(s[Len(s)], DigitChars) - 1)

AllDigits(s) == \A i \in 1..Len(s) : IsNumber(s[i])

\* strconv.Atoi: an optional sign, then one or more decimal digits.  (The raw
\* strings of the model are short, so the int64 range error never arises.)
Atoi(s) ==
    LET signed == Len(s) > 0 /\ s[1] \in {"+", "-"}
        body == IF signed THEN Tail(s) ELSE s
    IN IF Len(body) = 0 \/ ~AllDigits(body)
       THEN [ok |-> FALSE, val |-> 0]
       ELSE [ok |-> TRUE,
             val |-> IF signed /\ s[1] = "-" THEN 0 - DigitsValue(body)
                     ELSE DigitsValue(body)]

\* fmt.Sprintf("%d", n) for n >= 0 (the only indexes the code formats).
RECURSIVE Itoa(_)
Itoa(n) ==
    IF n < 10 THEN <<DigitChars[n + 1]>>
    ELSE Append(Itoa(n \div 10), DigitChars[(n % 10) + 1])

\* A decimal float: mantissa m and decimal exponent e, normalised so that
\* equal numbers are equal records.
RECURSIVE NormFloat(_, _)
NormFloat(m, e) ==
    IF m = 0 THEN [m |-> 0, e |-> 0]
    ELSE IF m % 10 = 0 THEN NormFloat(m \div 10, e + 1)
    ELSE [m |-> m, e |-> e]

\* strconv.ParseFloat(s, 64) on decimal literals: [sign] digits [. digits]
\* [e [sign] digits], with at least one mantissa digit.  (Hexadecimal
\* mantissas, "inf" and "nan" are not among the raw values the model draws.)
ParseFloat(s) ==
    LET signed == Len(s) > 0 /\ s[1] \in {"+", "-"}
        neg == signed /\ s[1] = "-"
        body == IF signed THEN Tail(s) ELSE s
        epos == {i \in 1..Len(body) : body[i] \in {"e", "E"}}
        mant == IF epos = {} THEN body
                ELSE SubSeq(body, 1, (CHOOSE i \in epos : \A j \in epos : i <= j) - 1)
        expo == IF epos = {} THEN <<"0">>
                ELSE SubSeq(body, (CHOOSE i \in epos : \A j \in epos : i <= j) + 1, Len(body))
        dots == {i \in 1..Len(mant) : mant[i] = "."}
        ip == IF dots = {} THEN mant ELSE SubSeq(mant, 1, (CHOOSE i \in dots : TRUE) - 1)
        fp == IF dots = {} THEN <<>>
              ELSE SubSeq(mant, (CHOOSE i \in dots : TRUE) + 1, Len(mant))
        ex == Atoi(expo)
        ok == /\ Cardinality(dots) <= 1
              /\ AllDigits(ip) /\ AllDigits(fp)
              /\ Len(ip) + Len(fp) > 0
              /\ ex.ok
        mag == DigitsValue(ip \o fp)
    IN IF ~ok THEN [ok |-> FALSE, val |-> [m |-> 0, e |-> 0]]
       ELSE [ok |-> TRUE,
             val |-> NormFloat(IF neg THEN 0 - mag ELSE mag, ex.val - Len(fp))]

-----------------------------------------------------------------------------
(* Values, pointers and the heap.                                           *)

\* A Go value of one of the four leaf kinds (reflect.Kind names).
StrV(s) == [k |-> "string", v |-> s]
BoolV(b) == [k |-> "bool", v |-> b]
IntV(i) == [k |-> "int", v |-> i]
FloatV(f) == [k |-> "float64", v |-> f]

NilPtr == [nil |-> TRUE]
Ptr(a) == [nil |-> FALSE, addr |-> a]

\* A slice: nil, or a view of the whole backing array at heap address arr.
NilSlice == [nil |-> TRUE]
SliceOf(a) == [nil |-> FALSE, arr |-> a]

ArrayCell(elems) == [k |-> "array", elems |-> elems]
StructV(f) == [k |-> "struct", f |-> f]

\* The world a call runs in: the heap, the log of environment lookups and
\* the log of the argument names looked up in the store.
Alloc(w, cell) == [w EXCEPT !.heap = Append(@, cell)]
Lookup(w, key) == [w EXCEPT !.reads = Append(@, key)]
Looked(w, argName) == [w EXCEPT !.looked = Append(@, argName)]

EmptyMap == [x \in {} |-> x]
MapPut(m, key, val) == [x \in DOMAIN m \cup {key} |-> IF x = key THEN val ELSE m[x]]

-----------------------------------------------------------------------------
(* errors.go                                                                *)

NoError == [type |-> "nil"]
ArgListMissingError == [type |-> "ArgListMissingError"]
ArgTypeMissingError(name, index) ==
    [type |-> "ArgTypeMissingError", name |-> name, index |-> index]
InvalidTypeStringError(typeStr) ==
    [type |-> "InvalidTypeStringError", typeStr |-> typeStr]
TypeMismatchError(fieldName, expectedType, receivedType) ==
    [type |-> "TypeMismatchError", fieldName |-> fieldName,
     expectedType |-> expectedType, receivedType |-> receivedType]
InvalidBooleanValueError(raw) == [type |-> "InvalidBooleanValueError", raw |-> raw]
InvalidIntegerValueError(raw) == [type |-> "InvalidIntegerValueError", raw |-> raw]
InvalidFloatValueError(raw) == [type |-> "InvalidFloatValueError", raw |-> raw]

\* fmt.Errorf: a plain error, with the error it wraps (%w) when it wraps one.
Errorf(msg, subject) == [type |-> "error", msg |-> msg, subject |-> subject]
Wrapf(msg, subject, inner) ==
    [type |-> "error", msg |-> msg, subject |-> subject, wrapped |-> inner]

\* A runtime panic unwinds through every caller: nothing is returned.
Panic(msg) == [type |-> "panic", msg |-> msg]
IsPanic(e) == e.type = "panic"

-----------------------------------------------------------------------------
(* Converters.                                                              *)

sTrue == <<"t","r","u","e">>
sFalse == <<"f","a","l","s","e">>

stringConverter(s) == [val |-> StrV(s), err |-> NoError]

\* A boolConverter that compares the text as it is.
boolConverterCaseSensitive(s) ==
    IF s = sTrue THEN [val |-> BoolV(TRUE), err |-> NoError]
    ELSE IF s = sFalse THEN [val |-> BoolV(FALSE), err |-> NoError]
    ELSE [val |-> BoolV(FALSE), err |-> InvalidBooleanValueError(s)]

boolConverter(s) ==
    LET l == ToLower(s)
    IN IF l = sTrue THEN [val |-> BoolV(TRUE), err |-> NoError]
       ELSE IF l = sFalse THEN [val |-> BoolV(FALSE), err |-> NoError]
       ELSE [val |-> BoolV(FALSE), err |-> InvalidBooleanValueError(s)]

intConverter(s) ==
    LET r == Atoi(s)
    IN IF ~r.ok THEN [val |-> IntV(0), err |-> InvalidIntegerValueError(s)]
       ELSE [val |-> IntV(r.val), err |-> NoError]

floatConverter(s) ==
    LET r == ParseFloat(s)
    IN IF ~r.ok THEN [val |-> FloatV([m |-> 0, e |-> 0]), err |-> InvalidFloatValueError(s)]
       ELSE [val |-> FloatV(r.val), err |-> NoError]

\* typeConverter[T].Convert, dispatched on the converter ParseArgs passes.
Convert(converter, s) ==
    CASE converter = "boolConverter" -> boolConverter(s)
      [] converter = "intConverter" -> intConverter(s)
      [] converter = "floatConverter" -> floatConverter(s)
      [] OTHER -> stringConverter(s)

-----------------------------------------------------------------------------
(* The store.                                                               *)

typeInfo(rawType, baseType, sliceSize, isSlice, isGroup) ==
    [rawType |-> rawType, baseType |-> baseType, sliceSize |-> sliceSize,
     isSlice |-> isSlice, isGroup |-> isGroup]

NilArgs == [nil |-> TRUE]

NewArgs ==
    [nil |-> FALSE,
     declaredArgs |-> EmptyMap,
     strings |-> EmptyMap, bools |-> EmptyMap, ints |-> EmptyMap, floats |-> EmptyMap,
     stringSlices |-> EmptyMap, boolSlices |-> EmptyMap,
     intSlices |-> EmptyMap, floatSlices |-> EmptyMap,
     stringGroups |-> EmptyMap, boolGroups |-> EmptyMap,
     intGroups |-> EmptyMap, floatGroups |-> EmptyMap]

\* The elements of the backing array of a non-nil slice.
Elems(h, s) == h[s.arr].elems

\* A []T or [][]T an accessor returns, by value.
ValSlice(elems) == [nil |-> FALSE, elems |-> elems]
NilValSlice == [nil |-> TRUE]

\* A getSingle whose flag means "set": false for a declared but unset name.
getSingleSetOnly(h, name, values, defaultValue) ==
    IF ToLower(name) \notin DOMAIN values \/ values[ToLower(name)].nil
    THEN [val |-> defaultValue, ok |-> FALSE]
    ELSE [val |-> h[values[ToLower(name)].addr], ok |-> TRUE]

getSingle(h, name, values, defaultValue) ==
    LET key == ToLower(name)
        ok == key \in DOMAIN values
    IN IF ~ok \/ values[key].nil
       THEN [val |-> defaultValue, ok |-> ok]
       ELSE [val |-> h[values[key].addr], ok |-> TRUE]

\* A getSlice that drops the unset slots instead of returning their zero value.
getSliceSetOnly(h, name, slices, defaultValue) ==
    IF ToLower(name) \notin DOMAIN slices THEN [val |-> NilValSlice, ok |-> FALSE]
    ELSE IF slices[ToLower(name)].nil THEN [val |-> ValSlice(<<>>), ok |-> TRUE]
    ELSE [val |-> ValSlice([i \in 1..Len(SelectSeq(Elems(h, slices[ToLower(name)]),
                                                    LAMBDA q : ~q.nil)) |->
                               h[SelectSeq(Elems(h, slices[ToLower(name)]),
                                           LAMBDA q : ~q.nil)[i].addr]]),
          ok |-> TRUE]

getSlice(h, name, slices, defaultValue) ==
    LET key == ToLower(name)
        ok == key \in DOMAIN slices
    IN IF ~ok THEN [val |-> NilValSlice, ok |-> ok]
       ELSE IF slices[key].nil THEN [val |-> ValSlice(<<>>), ok |-> ok]
       ELSE LET ptr == Elems(h, slices[key])
            IN [val |-> ValSlice([i \in 1..Len(ptr) |->
                                    IF ptr[i].nil THEN defaultValue ELSE h[ptr[i].addr]]),
                ok |-> TRUE]

getGroups(h, name, groups, defaultValue) ==
    LET key == ToLower(name)
        ok == key \in DOMAIN groups
    IN IF ~ok THEN [val |-> NilValSlice, ok |-> ok]
       ELSE IF groups[key].nil THEN [val |-> ValSlice(<<>>), ok |-> ok]
       ELSE LET ptr == Elems(h, groups[key])
                inner(p) ==
                    IF p.nil THEN ValSlice(<<>>)
                    ELSE LET q == Elems(h, p)
                         IN ValSlice([j \in 1..Len(q) |->
                                        IF q[j].nil THEN defaultValue ELSE h[q[j].addr]])
            IN [val |-> ValSlice([i \in 1..Len(ptr) |-> inner(ptr[i])]), ok |-> TRUE]

ZeroString == StrV(<<>>)
ZeroBool == BoolV(FALSE)
ZeroInt == IntV(0)
ZeroFloat == FloatV([m |-> 0, e |-> 0])

GetString(a, h, name) == getSingle(h, name, a.strings, ZeroString)
GetBool(a, h, name) == getSingle(h, name, a.bools, ZeroBool)
GetInt(a, h, name) == getSingle(h, name, a.ints, ZeroInt)
GetFloat(a, h, name) == getSingle(h, name, a.floats, ZeroFloat)

GetStringSlice(a, h, name) == getSlice(h, name, a.stringSlices, ZeroString)
GetBoolSlice(a, h, name) == getSlice(h, name, a.boolSlices, ZeroBool)
GetIntSlice(a, h, name) == getSlice(h, name, a.intSlices, ZeroInt)
GetFloatSlice(a, h, name) == getSlice(h, name, a.floatSlices, ZeroFloat)

GetStringGroups(a, h, name) == getGroups(h, name, a.stringGroups, ZeroString)
GetBoolGroups(a, h, name) == getGroups(h, name, a.boolGroups, ZeroBool)
GetIntGroups(a, h, name) == getGroups(h, name, a.intGroups, ZeroInt)
GetFloatGroups(a, h, name) == getGroups(h, name, a.floatGroups, ZeroFloat)

sBool == <<"b","o","o","l">>
sInt == <<"i","n","t">>
sFloat == <<"f","l","o","a","t">>
sStr == <<"s","t","r">>

\* GetAllArgs: the map it returns, name -> value.
GetAllArgs(a, h) ==
    LET get(name) ==
            CASE a.declaredArgs[name].baseType = sBool -> GetBool(a, h, name)
              [] a.declaredArgs[name].baseType = sInt -> GetInt(a, h, name)
              [] a.declaredArgs[name].baseType = sFloat -> GetFloat(a, h, name)
              [] OTHER -> GetString(a, h, name)
        present == {name \in DOMAIN a.declaredArgs : get(name).ok}
    IN [name \in present |-> get(name).val]

-----------------------------------------------------------------------------
(* The decoder.                                                             *)

NilTypeInfo == [nil |-> TRUE]

\* parseTypeInfo taking the size from the last segment.
parseTypeInfoSizeFromLast(typeStr) ==
    LET parts == Split(typeStr, "/")
        isSlice == Len(parts) > 1
        isGroup == Len(parts) > 2
        size == IF isSlice THEN Atoi(parts[2]) ELSE [ok |-> TRUE, val |-> 0]
        gsize == IF isGroup THEN Atoi(parts[3]) ELSE [ok |-> TRUE, val |-> 0]
    IN IF Len(parts) > 3 \/ ~size.ok \/ ~gsize.ok
       THEN [typeInfo |-> NilTypeInfo, err |-> InvalidTypeStringError(typeStr)]
       ELSE [typeInfo |-> typeInfo(typeStr, parts[1],
                                   IF isGroup THEN gsize.val ELSE size.val,
                                   isSlice, isGroup),
             err |-> NoError]

parseTypeInfo(typeStr) ==
    LET parts == Split(typeStr, "/")
        isSlice == Len(parts) > 1
        isGroup == Len(parts) > 2
        size == IF isSlice THEN Atoi(parts[2]) ELSE [ok |-> TRUE, val |-> 0]
        gsize == IF isGroup THEN Atoi(parts[3]) ELSE [ok |-> TRUE, val |-> 0]
    IN IF Len(parts) > 3 \/ ~size.ok \/ ~gsize.ok
       THEN [typeInfo |-> NilTypeInfo, err |-> InvalidTypeStringError(typeStr)]
       ELSE [typeInfo |-> typeInfo(typeStr, parts[1], size.val, isSlice, isGroup),
             err |-> NoError]

sOMNI_ARG == <<"O","M","N","I","_","A","R","G">>
sTYPE == <<"T","Y","P","E">>
sVALUE == <<"V","A","L","U","E">>
sLIST == <<"L","I","S","T">>

\* An optional index (*int): <<>> is nil, <<i>> points to i.
NilIndex == <<>>
Index(i) == <<i>>
IndexParts(index) == [k \in 1..Len(index) |-> Itoa(index[k])]

TypeKey(name, index) ==
    Join(<<sOMNI_ARG, ToUpper(name), sTYPE>> \o IndexParts(index), <<"_">>)

ValueKey(argName, index, group_index) ==
    Join(<<sOMNI_ARG, ToUpper(argName), sVALUE>>
            \o IndexParts(index) \o IndexParts(group_index), <<"_">>)

ListKey == Join(<<sOMNI_ARG, sLIST>>, <<"_">>)

\* A getArgType that takes a missing descriptor for a string scalar.
getArgTypeAtMissingIsString(w, e, name, index, key) ==
    IF key \notin DOMAIN e
    THEN [w |-> Lookup(w, key)] @@ parseTypeInfo(sStr)
    ELSE [w |-> Lookup(w, key)] @@ parseTypeInfo(e[key])

\* getArgType once os.LookupEnv(key) has been called.
getArgTypeAt(w, e, name, index, key) ==
    IF key \notin DOMAIN e
    THEN [w |-> Lookup(w, key), typeInfo |-> NilTypeInfo,
          err |-> ArgTypeMissingError(name, index)]
    ELSE [w |-> Lookup(w, key)] @@ parseTypeInfo(e[key])

getArgType(w, e, name, index) == getArgTypeAt(w, e, name, index, TypeKey(name, index))

\* The lower-cased names of getArgList.
LowerAll(fields) == [i \in 1..Len(fields) |-> ToLower(fields[i])]

\* A getArgList that takes a blank list for a missing one.
getArgListBlankIsMissing(w, e) ==
    IF ListKey \notin DOMAIN e \/ Fields(e[ListKey]) = <<>>
    THEN [w |-> Lookup(w, ListKey), args |-> <<>>, err |-> ArgListMissingError]
    ELSE [w |-> Lookup(w, ListKey), args |-> LowerAll(Fields(e[ListKey])),
          err |-> NoError]

\* A getArgList that keeps the names as they are written in the list.
getArgListKeepsCase(w, e) ==
    IF ListKey \notin DOMAIN e
    THEN [w |-> Lookup(w, ListKey), args |-> <<>>, err |-> ArgListMissingError]
    ELSE [w |-> Lookup(w, ListKey), args |-> Fields(e[ListKey]), err |-> NoError]

getArgList(w, e) ==
    IF ListKey \notin DOMAIN e
    THEN [w |-> Lookup(w, ListKey), args |-> <<>>, err |-> ArgListMissingError]
    ELSE [w |-> Lookup(w, ListKey), args |-> LowerAll(Fields(e[ListKey])),
          err |-> NoError]

\* getArgValue once converter.Convert(value) has returned c: the *T is nil on
\* an error, else a pointer to a fresh cell holding the value.
getArgValueConverted(w, c) ==
    IF c.err # NoError
    THEN [w |-> w, val |-> NilPtr, err |-> c.err]
    ELSE [w |-> Alloc(w, c.val), val |-> Ptr(Len(w.heap) + 1), err |-> NoError]

\* getArgValue once os.LookupEnv(key) has been called: a nil *T when the key
\* is absent.
getArgValueAt(w, e, key, converter) ==
    IF key \notin DOMAIN e
    THEN [w |-> Lookup(w, key), val |-> NilPtr, err |-> NoError]
    ELSE getArgValueConverted(Lookup(w, key), Convert(converter, e[key]))

getArgValue(w, e, argName, index, group_index, converter) ==
    getArgValueAt(w, e, ValueKey(argName, index, group_index), converter)

\* a.strings[name] = val and its eleven siblings: the closures ParseArgs passes.
storeSingle(a, converter, name, val) ==
    CASE converter = "boolConverter" -> [a EXCEPT !.bools = MapPut(@, name, val)]
      [] converter = "intConverter" -> [a EXCEPT !.ints = MapPut(@, name, val)]
      [] converter = "floatConverter" -> [a EXCEPT !.floats = MapPut(@, name, val)]
      [] OTHER -> [a EXCEPT !.strings = MapPut(@, name, val)]

storeSlice(a, converter, name, val) ==
    CASE converter = "boolConverter" -> [a EXCEPT !.boolSlices = MapPut(@, name, val)]
      [] converter = "intConverter" -> [a EXCEPT !.intSlices = MapPut(@, name, val)]
      [] converter = "floatConverter" -> [a EXCEPT !.floatSlices = MapPut(@, name, val)]
      [] OTHER -> [a EXCEPT !.stringSlices = MapPut(@, name, val)]

storeGroup(a, converter, name, val) ==
    CASE converter = "boolConverter" -> [a EXCEPT !.boolGroups = MapPut(@, name, val)]
      [] converter = "intConverter" -> [a EXCEPT !.intGroups = MapPut(@, name, val)]
      [] converter = "floatConverter" -> [a EXCEPT !.floatGroups = MapPut(@, name, val)]
      [] OTHER -> [a EXCEPT !.stringGroups = MapPut(@, name, val)]

\* make([]*T, n): a fresh backing array of n nil pointers; a negative n panics.
MakePtrArray(w, n) == Alloc(w, ArrayCell([i \in 1..n |-> NilPtr]))
MakeSliceArray(w, n) == Alloc(w, ArrayCell([i \in 1..n |-> NilSlice]))

SetElem(w, arr, i, val) == [w EXCEPT !.heap[arr].elems[i + 1] = val]

\* handleSingleValue once getArgValue has returned r.
handleSingleValueGot(r, a, argName, converter) ==
    IF r.err # NoError
    THEN [w |-> r.w, args |-> a, err |-> r.err]
    ELSE [w |-> r.w, args |-> storeSingle(a, converter, argName, r.val), err |-> NoError]

handleSingleValue(w, e, a, argName, converter) ==
    handleSingleValueGot(getArgValue(w, e, argName, NilIndex, NilIndex, converter),
                         a, argName, converter)

RECURSIVE handleSliceLoop(_, _, _, _, _, _, _)

\* The body of the loop of handleSliceValue once getArgValue has returned r.
handleSliceLoopGot(r, e, argName, arr, i, sliceSize, converter) ==
    IF r.err # NoError THEN [w |-> r.w, err |-> r.err]
    ELSE handleSliceLoop(SetElem(r.w, arr, i, r.val), e, argName, arr, i + 1,
                         sliceSize, converter)

\* The loop of handleSliceValue from index i on; values is the array at arr.
handleSliceLoop(w, e, argName, arr, i, sliceSize, converter) ==
    IF ~(i < sliceSize) THEN [w |-> w, err |-> NoError]
    ELSE handleSliceLoopGot(getArgValue(w, e, argName, Index(i), NilIndex, converter),
                            e, argName, arr, i, sliceSize, converter)

\* handleSliceValue once its loop has ended with r.
handleSliceValueDone(r, a, argName, arr, converter) ==
    IF r.err # NoError
    THEN [w |-> r.w, args |-> a, err |-> r.err]
    ELSE [w |-> r.w, args |-> storeSlice(a, converter, argName, SliceOf(arr)),
          err |-> NoError]

handleSliceValue(w, e, a, argName, sliceSize, converter) ==
    IF sliceSize < 0
    THEN [w |-> w, args |-> a, err |-> Panic("makeslice: len out of range")]
    ELSE handleSliceValueDone(
             handleSliceLoop(MakePtrArray(w, sliceSize), e, argName, Len(w.heap) + 1,
                             0, sliceSize, converter),
             a, argName, Len(w.heap) + 1, converter)

RECURSIVE handleGroupInnerLoop(_, _, _, _, _, _, _, _)

\* The body of the inner loop of handleGroupValue once getArgValue has
\* returned r.
handleGroupInnerLoopGot(r, e, argName, idx, garr, j, groupSize, converter) ==
    IF r.err # NoError THEN [w |-> r.w, err |-> r.err]
    ELSE handleGroupInnerLoop(SetElem(r.w, garr, j, r.val), e, argName, idx, garr,
                              j + 1, groupSize, converter)

\* The inner loop of handleGroupValue (over j) for outer index idx.
handleGroupInnerLoop(w, e, argName, idx, garr, j, groupSize, converter) ==
    IF ~(j < groupSize) THEN [w |-> w, err |-> NoError]
    ELSE handleGroupInnerLoopGot(
             getArgValue(w, e, argName, Index(idx), Index(j), converter),
             e, argName, idx, garr, j, groupSize, converter)

RECURSIVE handleGroupLoop(_, _, _, _, _, _, _)

\* The body of the outer loop of handleGroupValue once the inner loop has
\* ended with r, having filled the array at garr.
handleGroupLoopInnerDone(r, e, argName, arr, garr, i, sliceSize, converter) ==
    IF r.err # NoError THEN [w |-> r.w, err |-> r.err]
    ELSE handleGroupLoop(SetElem(r.w, arr, i, SliceOf(garr)), e, argName, arr, i + 1,
                         sliceSize, converter)

\* A handleGroupLoopTyped that sizes every inner sequence by the outer size
\* instead of the size its own descriptor declares.
handleGroupLoopTypedOuterSize(t, e, argName, arr, i, sliceSize, converter) ==
    IF t.err # NoError THEN [w |-> t.w, err |-> t.err]
    ELSE handleGroupLoopInnerDone(
             handleGroupInnerLoop(MakePtrArray(t.w, sliceSize), e, argName, i,
                                  Len(t.w.heap) + 1, 0, sliceSize, converter),
             e, argName, arr, Len(t.w.heap) + 1, i, sliceSize, converter)

\* The body of the outer loop of handleGroupValue once getArgType has
\* returned t for index i.
handleGroupLoopTyped(t, e, argName, arr, i, sliceSize, converter) ==
    IF t.err # NoError THEN [w |-> t.w, err |-> t.err]
    ELSE IF t.typeInfo.sliceSize < 0
    THEN [w |-> t.w, err |-> Panic("makeslice: len out of range")]
    ELSE handleGroupLoopInnerDone(
             handleGroupInnerLoop(MakePtrArray(t.w, t.typeInfo.sliceSize), e, argName,
                                  i, Len(t.w.heap) + 1, 0, t.typeInfo.sliceSize,
                                  converter),
             e, argName, arr, Len(t.w.heap) + 1, i, sliceSize, converter)

\* The outer loop of handleGroupValue from index i on.
handleGroupLoop(w, e, argName, arr, i, sliceSize, converter) ==
    IF ~(i < sliceSize) THEN [w |-> w, err |-> NoError]
    ELSE handleGroupLoopTyped(getArgType(w, e, argName, Index(i)),
                              e, argName, arr, i, sliceSize, converter)

\* handleGroupValue once its loop has ended with r.
handleGroupValueDone(r, a, argName, arr, converter) ==
    IF r.err # NoError
    THEN [w |-> r.w, args |-> a, err |-> r.err]
    ELSE [w |-> r.w, args |-> storeGroup(a, converter, argName, SliceOf(arr)),
          err |-> NoError]

handleGroupValue(w, e, a, argName, sliceSize, converter) ==
    IF sliceSize < 0
    THEN [w |-> w, args |-> a, err |-> Panic("makeslice: len out of range")]
    ELSE handleGroupValueDone(
             handleGroupLoop(MakeSliceArray(w, sliceSize), e, argName, Len(w.heap) + 1,
                             0, sliceSize, converter),
             a, argName, Len(w.heap) + 1, converter)

handleValue(w, e, a, argName, ti, converter) ==
    IF ti.isGroup THEN handleGroupValue(w, e, a, argName, ti.sliceSize, converter)
    ELSE IF ti.isSlice THEN handleSliceValue(w, e, a, argName, ti.sliceSize, converter)
    ELSE handleSingleValue(w, e, a, argName, converter)

\* The switch of ParseArgs on the base type: the converter (and maps) it picks.
ConverterFor(baseType) ==
    CASE baseType = sBool -> "boolConverter"
      [] baseType = sInt -> "intConverter"
      [] baseType = sFloat -> "floatConverter"
      [] OTHER -> "stringConverter"

RECURSIVE decodeLoop(_, _, _, _, _)

\* A decode loop that goes on after a failure and reports the last one.
decodeLoopHandledGoesOn(r, e, argList, k) ==
    IF r.err # NoError /\ decodeLoop(r.w, e, r.args, argList, k + 1).err = NoError
    THEN [w |-> decodeLoop(r.w, e, r.args, argList, k + 1).w, args |-> r.args,
          err |-> r.err]
    ELSE decodeLoop(r.w, e, r.args, argList, k + 1)

\* The body of the decode loop once handleValue has returned r.
decodeLoopHandled(r, e, argList, k) ==
    IF r.err # NoError THEN [w |-> r.w, args |-> r.args, err |-> r.err]
    ELSE decodeLoop(r.w, e, r.args, argList, k + 1)

\* The body of the decode loop once getArgType has returned t.
decodeLoopTyped(t, e, a, argList, k) ==
    IF t.err # NoError THEN [w |-> t.w, args |-> a, err |-> t.err]
    ELSE decodeLoopHandled(
             handleValue(t.w, e,
                         [a EXCEPT !.declaredArgs = MapPut(@, argList[k], t.typeInfo)],
                         argList[k], t.typeInfo, ConverterFor(t.typeInfo.baseType)),
             e, argList, k)

\* The decode loop of ParseArgs over argList from position k on.
decodeLoop(w, e, a, argList, k) ==
    IF k > Len(argList) THEN [w |-> w, args |-> a, err |-> NoError]
    ELSE decodeLoopTyped(getArgType(w, e, argList[k], NilIndex), e, a, argList, k)

-----------------------------------------------------------------------------
(* Names: naming.go and internal/omniarg.                                   *)

\* A string is its bytes.  A byte below 0x80 is written as its character, any
\* other byte as "x" and its two hexadecimal digits.  The characters outside
\* ASCII that occur here, in UTF-8:
UpperEAcute == <<"xC3","x89">>     \* U+00C9, upper case
LowerEAcute == <<"xC3","xA9">>     \* U+00E9, lower case
UpperOUmlaut == <<"xC3","x96">>    \* U+00D6, upper case
LowerOUmlaut == <<"xC3","xB6">>    \* U+00F6, lower case

\* The bytes above 0x7F of the strings these functions are given: one lead
\* byte of a two-byte character and four continuation bytes.  A lead byte
\* followed by a continuation byte encodes one of the four characters above.
LeadBytes == {"xC3"}
ContinuationBytes == {"x89", "x96", "xA9", "xB6"}

\* U+FFFD, the character `range` yields for a byte that starts no valid
\* encoding (a lead byte without continuation, a continuation byte without
\* lead).  Its bytes occur only in what is built from such a string, never
\* in the strings given.
RuneError == <<"xEF","xBF","xBD">>

\* `for i, r := range name` at byte i, for a string of ASCII bytes and the
\* bytes above: the character decoded there (as its UTF-8 bytes) and the
\* number of bytes it takes.
DecodeRune(name, i) ==
    IF name[i] \in LeadBytes /\ i < Len(name) /\ name[i + 1] \in ContinuationBytes
    THEN [r |-> SubSeq(name, i, i + 1), size |-> 2]
    ELSE IF name[i] \in LeadBytes \cup ContinuationBytes
    THEN [r |-> RuneError, size |-> 1]
    ELSE [r |-> <<name[i]>>, size |-> 1]

\* unicode.IsUpper(r), unicode.IsLower(r) and unicode.ToLower(r) of a character.
RuneIsUpper(r) == (Len(r) = 1 /\ IsUpper(r[1])) \/ r \in {UpperEAcute, UpperOUmlaut}
RuneIsLower(r) == (Len(r) = 1 /\ IsLower(r[1])) \/ r \in {LowerEAcute, LowerOUmlaut}
RuneToLower(r) ==
    CASE r = UpperEAcute -> LowerEAcute
      [] r = UpperOUmlaut -> LowerOUmlaut
      [] r \notin {UpperEAcute, UpperOUmlaut} /\ Len(r) = 1 -> <<ToLowerRune(r[1])>>
      [] OTHER -> r

\* unicode.IsLower(rune(b)) of one byte b taken as the character U+00bb: the
\* ASCII lower-case letters; none of the five bytes above 0x7F is one (U+0089
\* and U+0096 are control characters, U+00A9 and U+00B6 are symbols, U+00C3
\* is an upper-case letter).
ByteIsLower(b) == IsLower(b)

\* toParamName from byte i on (1-based).
RECURSIVE toParamNameFrom(_, _)
toParamNameFrom(name, i) ==
    IF i > Len(name) THEN <<>>
    ELSE LET d == DecodeRune(name, i)
             underscore ==
                 /\ i > 1
                 /\ \/ ByteIsLower(name[i - 1])
                    \/ (i + 1 <= Len(name) /\ ByteIsLower(name[i + 1]))
         IN (IF RuneIsUpper(d.r)
             THEN (IF underscore THEN <<"_">> ELSE <<>>) \o RuneToLower(d.r)
             ELSE d.r)
            \o toParamNameFrom(name, i + d.size)

toParamName(name) == toParamNameFrom(name, 1)

\* unicode.IsLetter(r) and unicode.IsNumber(r) of a character.
RuneIsLetter(r) == RuneIsUpper(r) \/ RuneIsLower(r)
RuneIsNumber(r) == Len(r) = 1 /\ IsNumber(r[1])

\* A SanitizeArgName loop that appends the separator for every character
\* that is neither a letter nor a number.
RECURSIVE sanitizeFromEvery(_, _, _, _)
sanitizeFromEvery(name, separator, i, result) ==
    IF i > Len(name) THEN result
    ELSE LET d == DecodeRune(name, i)
         IN IF RuneIsLetter(d.r) \/ RuneIsNumber(d.r)
            THEN sanitizeFromEvery(name, separator, i + d.size, Append(result, d.r))
            ELSE IF i > 1 /\ Len(result) > 0
            THEN sanitizeFromEvery(name, separator, i + d.size, Append(result, <<separator>>))
            ELSE sanitizeFromEvery(name, separator, i + d.size, result)

\* The loop of SanitizeArgName from byte i on; result is the []rune being built.
RECURSIVE sanitizeFrom(_, _, _, _)
sanitizeFrom(name, separator, i, result) ==
    IF i > Len(name) THEN result
    ELSE LET d == DecodeRune(name, i)
         IN IF RuneIsLetter(d.r) \/ RuneIsNumber(d.r)
            THEN sanitizeFrom(name, separator, i + d.size, Append(result, d.r))
            ELSE IF i > 1 /\ Len(result) > 0 /\ result[Len(result)] # <<separator>>
            THEN sanitizeFrom(name, separator, i + d.size, Append(result, <<separator>>))
            ELSE sanitizeFrom(name, separator, i + d.size, result)

\* strings.ToLower(string(result)) of a []rune.
RECURSIVE LowerString(_)
LowerString(result) ==
    IF result = <<>> THEN <<>>
    ELSE RuneToLower(Head(result)) \o LowerString(Tail(result))

SanitizeArgName(name, separator) ==
    LET result == sanitizeFrom(name, separator, 1, <<>>)
        cut == IF Len(result) > 0 /\ result[Len(result)] = <<separator>>
               THEN SubSeq(result, 1, Len(result) - 1)
               ELSE result
    IN LowerString(cut)

-----------------------------------------------------------------------------
(* The tag mini-language: internal/omniarg/tags.go.                         *)

Contains(s, c) == \E i \in 1..Len(s) : s[i] = c

\* strings.SplitN(s, sep, 2) for a one-character sep that occurs in s.
SplitN2(s, c) ==
    LET i == CHOOSE i \in 1..Len(s) : s[i] = c /\ \A j \in 1..(i - 1) : s[j] # c
    IN <<SubSeq(s, 1, i - 1), SubSeq(s, i + 1, Len(s))>>

\* strings.TrimLeft / TrimRight for a set of characters.
RECURSIVE TrimLeft(_, _)
TrimLeft(s, cutset) ==
    IF Len(s) > 0 /\ s[1] \in cutset THEN TrimLeft(Tail(s), cutset) ELSE s

RECURSIVE TrimRight(_, _)
TrimRight(s, cutset) ==
    IF Len(s) > 0 /\ s[Len(s)] \in cutset
    THEN TrimRight(SubSeq(s, 1, Len(s) - 1), cutset)
    ELSE s

TrimSpace(s) == TrimRight(TrimLeft(s, SpaceChars), SpaceChars)

\* strings.Trim(s, cutset) for a one-character cutset.
Trim(s, c) == TrimRight(TrimLeft(s, {c}), {c})

HasPrefix(s, prefix) ==
    Len(s) >= Len(prefix) /\ SubSeq(s, 1, Len(prefix)) = prefix
HasSuffix(s, suffix) ==
    Len(s) >= Len(suffix) /\ SubSeq(s, Len(s) - Len(suffix) + 1, Len(s)) = suffix

\* One iteration of the loop of specialSplit: the character r is read in
\* the scanner's state st.
specialSplitStep(st, r, sep, respectQuotes, respectParens) ==
    LET write == [st EXCEPT !.current = Append(@, r)]
        st1 ==
            CASE r = sep ->
                   IF st.inQuote \/ st.inParens > 0 THEN write
                   ELSE [st EXCEPT !.parts = Append(@, st.current),
                                   !.current = <<>>]
              [] r # sep /\ r = "\\" ->
                   [write EXCEPT !.escaped = ~st.escaped]
              [] r # sep /\ r = "\"" ->
                   IF respectQuotes /\ ~st.escaped
                   THEN [write EXCEPT !.inQuote = ~st.inQuote]
                   ELSE write
              [] r # sep /\ r = "(" ->
                   IF respectParens THEN [write EXCEPT !.inParens = @ + 1]
                   ELSE write
              [] r # sep /\ r = ")" ->
                   IF respectParens THEN [write EXCEPT !.inParens = @ - 1]
                   ELSE write
              [] OTHER -> write
    IN IF st1.escaped /\ r # "\\" THEN [st1 EXCEPT !.escaped = FALSE] ELSE st1

\* The loop of specialSplit over the characters lo..hi of s, from the
\* scanner's state st: the characters are read in order, the first half of
\* the range and, from the state half it ends in, the second.
RECURSIVE specialSplitFrom(_, _, _, _, _, _, _)
specialSplitFrom(s, sep, respectQuotes, respectParens, lo, hi, st) ==
    IF lo > hi THEN st
    ELSE IF lo = hi THEN specialSplitStep(st, s[lo], sep, respectQuotes, respectParens)
    ELSE CHOOSE end \in
             {specialSplitFrom(s, sep, respectQuotes, respectParens,
                               (lo + hi) \div 2 + 1, hi, half) :
                 half \in {specialSplitFrom(s, sep, respectQuotes, respectParens,
                                            lo, (lo + hi) \div 2, st)}} : TRUE

\* What specialSplit returns when the loop has ended in state st.
specialSplitEnd(st) ==
    IF Len(st.current) > 0 THEN Append(st.parts, st.current) ELSE st.parts

specialSplit(s, sep, respectQuotes, respectParens) ==
    specialSplitEnd(specialSplitFrom(s, sep, respectQuotes, respectParens, 1, Len(s),
                                     [parts |-> <<>>, current |-> <<>>, inQuote |-> FALSE,
                                      inParens |-> 0, escaped |-> FALSE]))

\* The values of the options map (interface{}): bool, string, []string, map.
OptBool(b) == [k |-> "bool", v |-> b]
OptString(s) == [k |-> "string", v |-> s]
OptList(l) == [k |-> "list", v |-> l]
OptMap(m) == [k |-> "map", v |-> m]

sAliases == <<"a","l","i","a","s","e","s">>
sPositional == <<"p","o","s","i","t","i","o","n","a","l">>
sRequired == <<"r","e","q","u","i","r","e","d">>
sLast == <<"l","a","s","t">>
sLeftovers == <<"l","e","f","t","o","v","e","r","s">>
sAllowHyphenValues ==
    <<"a","l","l","o","w","_","h","y","p","h","e","n","_","v","a","l","u","e","s">>
sAllowNegativeNumbers ==
    <<"a","l","l","o","w","_","n","e","g","a","t","i","v","e","_",
      "n","u","m","b","e","r","s">>
sGroupOccurrences ==
    <<"g","r","o","u","p","_","o","c","c","u","r","r","e","n","c","e","s">>
sRequires == <<"r","e","q","u","i","r","e","s">>
sConflictsWith == <<"c","o","n","f","l","i","c","t","s","_","w","i","t","h">>
sRequiredWithout == sRequired \o <<"_","w","i","t","h","o","u","t">>
sRequiredWithoutAll == sRequiredWithout \o <<"_","a","l","l">>
sRequiredIfEq == sRequired \o <<"_","i","f","_","e","q">>
sRequiredIfEqAll == sRequiredIfEq \o <<"_","a","l","l">>
sType == <<"t","y","p","e">>
sValues == <<"v","a","l","u","e","s">>
sEnum == <<"e","n","u","m">>
sArraySlash == <<"a","r","r","a","y","/">>
sPlaceholder == <<"p","l","a","c","e","h","o","l","d","e","r">>
sPlaceholders == sPlaceholder \o <<"s">>

\* The conditions map of required_if_eq: the field:value pairs of value.
RECURSIVE parseConditions(_, _, _)
parseConditions(pairs, i, conditions) ==
    IF i > Len(pairs) THEN conditions
    ELSE LET kv == Split(pairs[i], ":")
         IN parseConditions(pairs, i + 1,
                IF Len(kv) = 2
                THEN MapPut(conditions, TrimSpace(kv[1]), TrimSpace(kv[2]))
                ELSE conditions)

\* The "type" case of ParseTag: options after a type=value token.
parseTypeOption(options, value) ==
    LET arrayPrefix == HasPrefix(value, sArraySlash)
        bracketed == ~arrayPrefix /\ HasPrefix(value, <<"[">>) /\ HasSuffix(value, <<"]">>)
        is_array == arrayPrefix \/ bracketed
        strType == IF arrayPrefix THEN SubSeq(value, 7, Len(value))
                   ELSE IF bracketed THEN SubSeq(value, 2, Len(value) - 1)
                   ELSE value
        bare == HasPrefix(strType, <<"(">>) /\ HasSuffix(strType, <<")">>)
        enum == ~bare /\ HasPrefix(strType, sEnum \o <<"(">>) /\ HasSuffix(strType, <<")">>)
        o1 == IF bare
              THEN MapPut(options, sValues,
                          OptList(Split(SubSeq(strType, 2, Len(strType) - 1), ",")))
              ELSE IF enum
              THEN MapPut(options, sValues,
                          OptList(Split(SubSeq(strType, 6, Len(strType) - 1), ",")))
              ELSE options
        strType1 == IF bare \/ enum THEN sEnum ELSE strType
        o2 == IF sValues \in DOMAIN o1 /\ o1[sValues].k = "list"
              THEN MapPut(o1, sValues,
                          OptList([i \in 1..Len(o1[sValues].v) |->
                                      TrimSpace(o1[sValues].v[i])]))
              ELSE o1
    IN MapPut(o2, sType,
              OptString(IF is_array THEN sArraySlash \o strType1 ELSE strType1))

\* A parseOption whose boolean keys take "true" in any case.
parseOptionAnyCaseTrue(options, part) ==
    LET kv == SplitN2(part, "=")
        key == TrimSpace(kv[1])
        value == Trim(TrimSpace(kv[2]), "\"")
    IN CASE key = sAliases -> MapPut(options, key, OptList(Split(value, ",")))
         [] key \in {sPositional, sRequired, sLast, sLeftovers, sAllowHyphenValues,
                     sAllowNegativeNumbers, sGroupOccurrences} ->
                MapPut(options, key, OptBool(ToLower(value) = sTrue))
         [] key \in {sRequires, sConflictsWith, sRequiredWithout, sRequiredWithoutAll} ->
                MapPut(options, key, OptList(Split(value, ",")))
         [] key \in {sRequiredIfEq, sRequiredIfEqAll} ->
                MapPut(options, key,
                       OptMap(parseConditions(Split(value, ","), 1, EmptyMap)))
         [] key = sType -> parseTypeOption(options, value)
         [] key \in {sPlaceholders, sPlaceholder} ->
                LET ps == Split(value, " ")
                IN MapPut(options, sPlaceholders,
                          OptList([i \in 1..Len(ps) |-> TrimSpace(ps[i])]))
         [] OTHER -> MapPut(options, key, OptString(value))

\* One key=value token of ParseTag.
parseOption(options, part) ==
    LET kv == SplitN2(part, "=")
        key == TrimSpace(kv[1])
        value == Trim(TrimSpace(kv[2]), "\"")
    IN CASE key = sAliases -> MapPut(options, key, OptList(Split(value, ",")))
         [] key \in {sPositional, sRequired, sLast, sLeftovers, sAllowHyphenValues,
                     sAllowNegativeNumbers, sGroupOccurrences} ->
                MapPut(options, key, OptBool(value = sTrue))
         [] key \in {sRequires, sConflictsWith, sRequiredWithout, sRequiredWithoutAll} ->
                MapPut(options, key, OptList(Split(value, ",")))
         [] key \in {sRequiredIfEq, sRequiredIfEqAll} ->
                MapPut(options, key,
                       OptMap(parseConditions(Split(value, ","), 1, EmptyMap)))
         [] key = sType -> parseTypeOption(options, value)
         [] key \in {sPlaceholders, sPlaceholder} ->
                LET ps == Split(value, " ")
                IN MapPut(options, sPlaceholders,
                          OptList([i \in 1..Len(ps) |-> TrimSpace(ps[i])]))
         [] OTHER -> MapPut(options, key, OptString(value))

\* The loop of ParseTag over parts from position i on.
RECURSIVE parseTagLoop(_, _, _, _)
parseTagLoop(parts, i, argName, options) ==
    IF i > Len(parts) THEN [name |-> argName, options |-> options]
    ELSE IF Contains(parts[i], "=")
    THEN parseTagLoop(parts, i + 1, argName, parseOption(options, parts[i]))
    ELSE IF argName = <<>>
    THEN parseTagLoop(parts, i + 1, TrimSpace(parts[i]), options)
    ELSE parseTagLoop(parts, i + 1, argName, options)

ParseTag(tag) == parseTagLoop(specialSplit(tag, " ", TRUE, TRUE), 1, <<>>, EmptyMap)

-----------------------------------------------------------------------------
(* Target types and values, as reflect sees them.                           *)

TString == [k |-> "string"]
TBool == [k |-> "bool"]
TInt == [k |-> "int"]
TFloat64 == [k |-> "float64"]
TInt64 == [k |-> "int64"]
TPtr(t) == [k |-> "ptr", elem |-> t]
TSlice(t) == [k |-> "slice", elem |-> t]
TStruct(name, fields) == [k |-> "struct", name |-> name, fields |-> fields]

\* reflect.StructField: the identifier, the type, and the omniarg tag value
\* Tag.Lookup("omniarg") returns (hasTag is its second result).
StructField(name, type, hasTag, tag) ==
    [Name |-> name, Type |-> type, hasTag |-> hasTag, tag |-> tag]

\* reflect.Zero(t)
RECURSIVE Zero(_)
Zero(t) ==
    CASE t.k = "string" -> ZeroString
      [] t.k = "bool" -> ZeroBool
      [] t.k = "int" -> ZeroInt
      [] t.k = "float64" -> ZeroFloat
      [] t.k = "ptr" -> NilPtr
      [] t.k = "slice" -> NilSlice
      [] t.k = "struct" -> StructV([i \in 1..Len(t.fields) |-> Zero(t.fields[i].Type)])
      [] OTHER -> [k |-> t.k, v |-> 0]

\* A pointer into a struct held in the heap: the cell and the path of field
\* indexes from it (field.Addr()).
InteriorPtr(addr, path) == [nil |-> FALSE, addr |-> addr, path |-> path]
PathOf(ptr) == IF "path" \in DOMAIN ptr THEN ptr.path ELSE <<>>

RECURSIVE LoadPath(_, _)
LoadPath(v, path) ==
    IF path = <<>> THEN v ELSE LoadPath(v.f[Head(path)], Tail(path))

RECURSIVE StorePath(_, _, _)
StorePath(v, path, new) ==
    IF path = <<>> THEN new
    ELSE [v EXCEPT !.f[Head(path)] = StorePath(@, Tail(path), new)]

Load(h, addr, path) == LoadPath(h[addr], path)
\* field.Set(new)
Set(w, addr, path, new) == [w EXCEPT !.heap[addr] = StorePath(@, path, new)]

\* m[key] of a Go map: the zero value when the key is absent.
MapGet(m, key, zero) == IF key \in DOMAIN m THEN m[key] ELSE zero

-----------------------------------------------------------------------------
(* The binder.                                                              *)

\* validateFieldType without the comparison of isGroup.
validateFieldTypeNoGroupCheck(field, ti) ==
    LET t0 == field.Type
        isSlice == t0.k = "slice"
        isGroup == isSlice /\ t0.elem.k = "slice"
        t1 == IF isGroup THEN t0.elem.elem ELSE IF isSlice THEN t0.elem ELSE t0
        baseType == IF t1.k = "ptr" THEN t1.elem ELSE t1
        expectedType == CASE baseType.k = "string" -> sStr
                          [] baseType.k = "bool" -> sBool
                          [] baseType.k = "int" -> sInt
                          [] OTHER -> sFloat
    IN IF baseType.k \notin {"string", "bool", "int", "float64"}
       THEN Errorf("unsupported field type", field.Name)
       ELSE IF ti.baseType # expectedType
       THEN TypeMismatchError(field.Name, expectedType, ti.baseType)
       ELSE IF ti.isSlice # isSlice
       THEN (IF isSlice
             THEN Errorf("field is a slice but argument is not", field.Name)
             ELSE Errorf("field is not a slice but argument is", field.Name))
       ELSE NoError

validateFieldType(field, ti) ==
    LET t0 == field.Type
        isSlice == t0.k = "slice"
        isGroup == isSlice /\ t0.elem.k = "slice"
        t1 == IF isGroup THEN t0.elem.elem ELSE IF isSlice THEN t0.elem ELSE t0
        isPtr == t1.k = "ptr"
        baseType == IF isPtr THEN t1.elem ELSE t1
        supported == baseType.k \in {"string", "bool", "int", "float64"}
        expectedType == CASE baseType.k = "string" -> sStr
                          [] baseType.k = "bool" -> sBool
                          [] baseType.k = "int" -> sInt
                          [] OTHER -> sFloat
    IN IF ~supported THEN Errorf("unsupported field type", field.Name)
       ELSE IF ti.baseType # expectedType
       THEN TypeMismatchError(field.Name, expectedType, ti.baseType)
       ELSE IF ti.isGroup # isGroup
       THEN (IF isGroup
             THEN Errorf("field is for grouped occurrences but argument is not", field.Name)
             ELSE Errorf("field is not for grouped occurrences but argument is", field.Name))
       ELSE IF ti.isSlice # isSlice
       THEN (IF isSlice
             THEN Errorf("field is a slice but argument is not", field.Name)
             ELSE Errorf("field is not a slice but argument is", field.Name))
       ELSE NoError

IntKinds == {"int", "int8", "int16", "int32", "int64",
             "uint", "uint8", "uint16", "uint32", "uint64"}
FloatKinds == {"float32", "float64"}
FillKinds == {"string", "bool"} \cup IntKinds \cup FloatKinds

\* `x == nil` for an interface{} that was assigned a typed pointer or slice:
\* the interface holds a type, so it is never the nil interface.
IsNilInterface(x) == FALSE

\* One slot of a slice or group field: elemPtr is the store's *T, elemType the
\* type of the target's slot.
fillSlot(h, elemPtr, elemType, isTargetPtr) ==
    IF elemPtr.nil THEN Zero(elemType)
    ELSE IF isTargetPtr THEN elemPtr
    ELSE h[elemPtr.addr]

\* A fillSingleField that leaves the field alone when the argument is unset.
fillSingleFieldKeepsUnset(w, a, addr, path, fieldType, elemKind, argName, isTargetPtr) ==
    LET filled(parsedValue) ==
            IF parsedValue.nil THEN [w |-> w, err |-> NoError]
            ELSE IF isTargetPtr
            THEN [w |-> Set(w, addr, path, parsedValue), err |-> NoError]
            ELSE [w |-> Set(w, addr, path, w.heap[parsedValue.addr]), err |-> NoError]
    IN IF elemKind \notin FillKinds
       THEN [w |-> w, err |-> Errorf("unsupported field type", argName)]
       ELSE filled(CASE elemKind = "string" -> MapGet(a.strings, argName, NilPtr)
                     [] elemKind = "bool" -> MapGet(a.bools, argName, NilPtr)
                     [] elemKind \in IntKinds -> MapGet(a.ints, argName, NilPtr)
                     [] OTHER -> MapGet(a.floats, argName, NilPtr))

\* A fillSingleField that moves the value out of the store: the store's cell
\* is left zero once it has been copied to a value field.
fillSingleFieldMoves(w, a, addr, path, fieldType, elemKind, argName, isTargetPtr) ==
    LET filled(parsedValue) ==
            IF IsNilInterface(parsedValue)
            THEN [w |-> Set(w, addr, path, Zero(fieldType)), err |-> NoError]
            ELSE IF isTargetPtr
            THEN [w |-> Set(w, addr, path, parsedValue), err |-> NoError]
            ELSE IF ~parsedValue.nil
            THEN [w |-> Set(Set(w, addr, path, w.heap[parsedValue.addr]),
                            parsedValue.addr, <<>>, Zero(fieldType)),
                  err |-> NoError]
            ELSE [w |-> Set(w, addr, path, Zero(fieldType)), err |-> NoError]
    IN IF elemKind \notin FillKinds
       THEN [w |-> w, err |-> Errorf("unsupported field type", argName)]
       ELSE filled(CASE elemKind = "string" -> MapGet(a.strings, argName, NilPtr)
                     [] elemKind = "bool" -> MapGet(a.bools, argName, NilPtr)
                     [] elemKind \in IntKinds -> MapGet(a.ints, argName, NilPtr)
                     [] OTHER -> MapGet(a.floats, argName, NilPtr))

fillSingleField(w, a, addr, path, fieldType, elemKind, argName, isTargetPtr) ==
    LET filled(parsedValue) ==
            IF IsNilInterface(parsedValue)
            THEN [w |-> Set(w, addr, path, Zero(fieldType)), err |-> NoError]
            ELSE IF isTargetPtr
            THEN [w |-> Set(w, addr, path, parsedValue), err |-> NoError]
            ELSE IF ~parsedValue.nil
            THEN [w |-> Set(w, addr, path, w.heap[parsedValue.addr]), err |-> NoError]
            ELSE [w |-> Set(w, addr, path, Zero(fieldType)), err |-> NoError]
    IN IF elemKind \notin FillKinds
       THEN [w |-> w, err |-> Errorf("unsupported field type", argName)]
       ELSE filled(CASE elemKind = "string" -> MapGet(a.strings, argName, NilPtr)
                     [] elemKind = "bool" -> MapGet(a.bools, argName, NilPtr)
                     [] elemKind \in IntKinds -> MapGet(a.ints, argName, NilPtr)
                     [] OTHER -> MapGet(a.floats, argName, NilPtr))

\* reflect.MakeSlice and the loop that fills it from the store's pointers src.
fillSliceFrom(w, addr, path, fieldType, src, isTargetPtr) ==
    Set(Alloc(w, ArrayCell([i \in 1..Len(src) |->
                               fillSlot(w.heap, src[i], fieldType.elem, isTargetPtr)])),
        addr, path, SliceOf(Len(w.heap) + 1))

fillSliceField(w, a, addr, path, fieldType, elemKind, argName, isTargetPtr) ==
    LET filled(ptrSlice) ==
            IF IsNilInterface(ptrSlice)
            THEN [w |-> Set(Alloc(w, ArrayCell(<<>>)), addr, path,
                            SliceOf(Len(w.heap) + 1)),
                  err |-> NoError]
            ELSE [w |-> fillSliceFrom(w, addr, path, fieldType,
                                      IF ptrSlice.nil THEN <<>>
                                      ELSE Elems(w.heap, ptrSlice),
                                      isTargetPtr),
                  err |-> NoError]
    IN IF elemKind \notin FillKinds
       THEN [w |-> w, err |-> Errorf("unsupported field type", argName)]
       ELSE filled(CASE elemKind = "string" -> MapGet(a.stringSlices, argName, NilSlice)
                     [] elemKind = "bool" -> MapGet(a.boolSlices, argName, NilSlice)
                     [] elemKind \in IntKinds -> MapGet(a.intSlices, argName, NilSlice)
                     [] OTHER -> MapGet(a.floatSlices, argName, NilSlice))

\* The new sub-slice of fillGroupField for one inner slice p of the store.
fillGroupSub(h, p, elemType, isTargetPtr) ==
    IF p.nil THEN <<>>
    ELSE [j \in 1..Len(Elems(h, p)) |->
             fillSlot(h, Elems(h, p)[j], elemType, isTargetPtr)]

\* reflect.MakeSlice for the group, then one new sub-slice per index of src.
fillGroupFrom(w, addr, path, fieldType, src, isTargetPtr) ==
    Set([w EXCEPT !.heap =
            @ \o <<ArrayCell([i \in 1..Len(src) |-> SliceOf(Len(w.heap) + 1 + i)])>>
              \o [i \in 1..Len(src) |->
                     ArrayCell(fillGroupSub(w.heap, src[i], fieldType.elem.elem,
                                            isTargetPtr))]],
        addr, path, SliceOf(Len(w.heap) + 1))

fillGroupField(w, a, addr, path, fieldType, elemKind, argName, isTargetPtr) ==
    LET filled(groupSlice) ==
            IF IsNilInterface(groupSlice)
            THEN [w |-> Set(Alloc(w, ArrayCell(<<>>)), addr, path,
                            SliceOf(Len(w.heap) + 1)),
                  err |-> NoError]
            ELSE [w |-> fillGroupFrom(w, addr, path, fieldType,
                                      IF groupSlice.nil THEN <<>>
                                      ELSE Elems(w.heap, groupSlice),
                                      isTargetPtr),
                  err |-> NoError]
    IN IF elemKind \notin FillKinds
       THEN [w |-> w, err |-> Errorf("unsupported field type", argName)]
       ELSE filled(CASE elemKind = "string" -> MapGet(a.stringGroups, argName, NilSlice)
                     [] elemKind = "bool" -> MapGet(a.boolGroups, argName, NilSlice)
                     [] elemKind \in IntKinds -> MapGet(a.intGroups, argName, NilSlice)
                     [] OTHER -> MapGet(a.floatGroups, argName, NilSlice))

fillField(w, a, addr, path, fieldType, argName) ==
    LET isSlice == fieldType.k = "slice"
        isGroup == isSlice /\ fieldType.elem.k = "slice"
        t1 == IF isGroup THEN fieldType.elem.elem
              ELSE IF isSlice THEN fieldType.elem ELSE fieldType
        isPtr == t1.k = "ptr"
        kind == IF isPtr THEN t1.elem.k ELSE t1.k
    IN IF isGroup
       THEN fillGroupField(w, a, addr, path, fieldType, kind, argName, isPtr)
       ELSE IF isSlice
       THEN fillSliceField(w, a, addr, path, fieldType, kind, argName, isPtr)
       ELSE fillSingleField(w, a, addr, path, fieldType, kind, argName, isPtr)

\* field.CanSet(): the field is exported (its struct is always addressable here).
CanSet(field) == Len(field.Name) > 0 /\ IsUpper(field.Name[1])

sDash == <<"-">>

\* The argument name Fill resolves for a field, before sanitization.
fieldArgName(field) ==
    IF field.hasTag
    THEN (IF ParseTag(field.tag).name # <<>> THEN field.tag ELSE <<>>)
    ELSE toParamName(field.Name)

\* An interface{} handed to Fill: its dynamic type and its value.
Interface(type, val) == [type |-> type, val |-> val]

RECURSIVE Fill(_, _, _, _)
RECURSIVE fillFields(_, _, _, _, _, _, _)

\* A struct type that refers to itself does so by name: inside its own
\* definition the type is written TSelf(name), and TypeDef gives the
\* definition back.
TSelf(name) == [k |-> "struct", name |-> name]
Node == TStruct("Node", <<StructField(<<"N","e","x","t">>, TPtr(TSelf("Node")), FALSE, <<>>)>>)
Item ==
    TStruct("Item", <<StructField(<<"A">>, TString, FALSE, <<>>),
                      StructField(<<"N","e","x","t">>, TPtr(TSelf("Item")), FALSE, <<>>)>>)
Chain ==
    TStruct("Chain", <<StructField(<<"N","e","x","t">>, TPtr(TSelf("Chain")), FALSE, <<>>),
                       StructField(<<"A">>, TString, FALSE, <<>>)>>)
Ping ==
    TStruct("Ping",
            <<StructField(<<"P","o","n","g">>,
                          TPtr(TStruct("Pong", <<StructField(<<"P","i","n","g">>, TPtr(TSelf("Ping")),
                                                             FALSE, <<>>)>>)),
                          FALSE, <<>>)>>)
SelfTypes == {Node, Item, Chain, Ping}
TypeDef(t) ==
    IF "fields" \in DOMAIN t THEN t ELSE CHOOSE d \in SelfTypes : d.name = t.name

\* The goroutine's stack: the runtime ends the program with "fatal error:
\* stack overflow" when the calls of Fill nest too deep.  No struct type of
\* finite depth used here nests as deep as MaxDepth.
MaxDepth == 4

\* fillEmbedded with the pointer field always set to a new zero struct.
fillEmbeddedAlwaysNew(w, a, addr, path, structType, i, argName) ==
    LET fieldType == structType.fields[i]
        entered(w1) ==
            IF w1.depth >= MaxDepth THEN [w |-> w1, err |-> Panic("stack overflow")]
            ELSE Fill([w1 EXCEPT !.depth = @ + 1], a,
                      IF fieldType.Type.k = "struct"
                      THEN Interface(TPtr(fieldType.Type),
                                     InteriorPtr(addr, Append(path, i)))
                      ELSE Interface(fieldType.Type, Load(w1.heap, addr, Append(path, i))),
                      argName \o <<"_">>)
        wrapped(r) ==
            IF r.err # NoError /\ ~IsPanic(r.err)
            THEN [w |-> [r.w EXCEPT !.depth = w.depth],
                  err |-> Wrapf("error in embedded struct", fieldType.Name, r.err)]
            ELSE [w |-> [r.w EXCEPT !.depth = w.depth], err |-> r.err]
    IN wrapped(entered(
           IF fieldType.Type.k = "ptr"
           THEN Set(Alloc(w, Zero(TypeDef(fieldType.Type.elem))), addr, Append(path, i),
                    Ptr(Len(w.heap) + 1))
           ELSE w))

\* The embedded-struct branch of Fill for field i: a nil pointer to a struct is
\* first set to a new zero struct, then Fill recurses with the prefix extended.
fillEmbedded(w, a, addr, path, structType, i, argName) ==
    LET fieldType == structType.fields[i]
        entered(w1) ==
            IF w1.depth >= MaxDepth THEN [w |-> w1, err |-> Panic("stack overflow")]
            ELSE Fill([w1 EXCEPT !.depth = @ + 1], a,
                      IF fieldType.Type.k = "struct"
                      THEN Interface(TPtr(fieldType.Type),
                                     InteriorPtr(addr, Append(path, i)))
                      ELSE Interface(fieldType.Type, Load(w1.heap, addr, Append(path, i))),
                      argName \o <<"_">>)
        wrapped(r) ==
            IF r.err # NoError /\ ~IsPanic(r.err)
            THEN [w |-> [r.w EXCEPT !.depth = w.depth],
                  err |-> Wrapf("error in embedded struct", fieldType.Name, r.err)]
            ELSE [w |-> [r.w EXCEPT !.depth = w.depth], err |-> r.err]
    IN wrapped(entered(
           IF fieldType.Type.k = "ptr" /\ Load(w.heap, addr, Append(path, i)).nil
           THEN Set(Alloc(w, Zero(TypeDef(fieldType.Type.elem))), addr, Append(path, i),
                    Ptr(Len(w.heap) + 1))
           ELSE w))

\* fillTerminalRead with an undeclared name giving a pointer field nil.
fillTerminalReadOptionalAbsent(w, a, addr, path, structType, i, argName) ==
    LET fieldType == structType.fields[i]
        wrapped(r) ==
            IF r.err # NoError
            THEN [w |-> r.w, err |-> Wrapf("error in", structType.name, r.err)]
            ELSE r
        validated(v) ==
            IF v = NoError
            THEN wrapped(fillField(w, a, addr, Append(path, i), fieldType.Type, argName))
            ELSE IF v.type = "TypeMismatchError"
            THEN [w |-> w,
                  err |-> Errorf("has wrong type",
                                 <<structType.name, v.fieldName,
                                   v.expectedType, v.receivedType>>)]
            ELSE [w |-> w, err |-> Wrapf("error in", structType.name, v)]
    IN IF argName \notin DOMAIN a.declaredArgs /\ fieldType.Type.k = "ptr"
       THEN [w |-> Set(w, addr, Append(path, i), NilPtr), err |-> NoError]
       ELSE IF argName \notin DOMAIN a.declaredArgs
       THEN [w |-> w, err |-> Errorf("parameter not found",
                                      <<structType.name, fieldType.Name, argName>>)]
       ELSE validated(validateFieldType(fieldType, a.declaredArgs[argName]))

\* The terminal-field branch of Fill for field i once a.declaredArgs[argName]
\* has been read (w holds the record of that read).
fillTerminalRead(w, a, addr, path, structType, i, argName) ==
    LET fieldType == structType.fields[i]
        wrapped(r) ==
            IF r.err # NoError
            THEN [w |-> r.w, err |-> Wrapf("error in", structType.name, r.err)]
            ELSE r
        validated(v) ==
            IF v = NoError
            THEN wrapped(fillField(w, a, addr, Append(path, i), fieldType.Type, argName))
            ELSE IF v.type = "TypeMismatchError"
            THEN [w |-> w,
                  err |-> Errorf("has wrong type",
                                 <<structType.name, v.fieldName,
                                   v.expectedType, v.receivedType>>)]
            ELSE [w |-> w, err |-> Wrapf("error in", structType.name, v)]
    IN IF argName \notin DOMAIN a.declaredArgs
       THEN [w |-> w, err |-> Errorf("parameter not found",
                                      <<structType.name, fieldType.Name, argName>>)]
       ELSE validated(validateFieldType(fieldType, a.declaredArgs[argName]))

\* The terminal-field branch of Fill for field i, bound to argName.
fillTerminal(w, a, addr, path, structType, i, argName) ==
    fillTerminalRead(Looked(w, argName), a, addr, path, structType, i, argName)

\* The body of the loop of Fill for field i, once its name is sanitized.
fillNamed(w, a, addr, path, structType, currentPrefix, i, sanitized) ==
    LET fieldType == structType.fields[i]
    IN IF sanitized = <<>>
       THEN [w |-> w, err |-> Errorf("missing argument name",
                                      <<structType.name, fieldType.Name>>)]
       ELSE IF \/ fieldType.Type.k = "struct"
               \/ (fieldType.Type.k = "ptr" /\ fieldType.Type.elem.k = "struct")
       THEN fillEmbedded(w, a, addr, path, structType, i, currentPrefix \o sanitized)
       ELSE fillTerminal(w, a, addr, path, structType, i, currentPrefix \o sanitized)

\* One iteration of the loop of Fill: field i of the struct at (addr, path).
fillLoopBody(w, a, addr, path, structType, currentPrefix, i) ==
    LET fieldType == structType.fields[i]
    IN IF ~CanSet(fieldType) THEN [w |-> w, err |-> NoError]
       ELSE IF fieldType.hasTag /\ fieldType.tag = sDash
       THEN [w |-> w, err |-> NoError]
       ELSE fillNamed(w, a, addr, path, structType, currentPrefix, i,
                      SanitizeArgName(fieldArgName(fieldType), "_"))

\* A loop of Fill that goes on with the next fields after a field has failed
\* and returns the first error at the end.
fillFieldsGoesOn(w, a, addr, path, structType, currentPrefix, i) ==
    IF i > Len(structType.fields) THEN [w |-> w, err |-> NoError]
    ELSE LET rest(r) == fillFields(r.w, a, addr, path, structType, currentPrefix, i + 1)
             done(r) ==
                 IF r.err # NoError /\ ~IsPanic(r.err)
                 THEN [w |-> rest(r).w, err |-> r.err]
                 ELSE IF r.err # NoError THEN r
                 ELSE rest(r)
         IN done(fillLoopBody(w, a, addr, path, structType, currentPrefix, i))

\* The loop of Fill over the fields of the struct at (addr, path), from field i.
fillFields(w, a, addr, path, structType, currentPrefix, i) ==
    IF i > Len(structType.fields) THEN [w |-> w, err |-> NoError]
    ELSE LET done(r) ==
                 IF r.err # NoError THEN r
                 ELSE fillFields(r.w, a, addr, path, structType, currentPrefix, i + 1)
         IN done(fillLoopBody(w, a, addr, path, structType, currentPrefix, i))

\* Args.Fill(v, prefix): v is the interface{} argument.
Fill(w, a, v, currentPrefix) ==
    IF v.type.k # "ptr" \/ v.val.nil
    THEN [w |-> w, err |-> Errorf("argument must be a non-nil pointer to a struct", <<>>)]
    ELSE IF v.type.elem.k # "struct"
    THEN [w |-> w, err |-> Errorf("argument must be a pointer to a struct", <<>>)]
    ELSE fillFields(w, a, v.val.addr, PathOf(v.val), TypeDef(v.type.elem), currentPrefix, 1)

RECURSIVE FillAllFrom(_, _, _, _)
FillAllFrom(w, a, ts, k) ==
    IF k > Len(ts) THEN [w |-> w, err |-> NoError]
    ELSE LET filled(r) == IF r.err # NoError THEN r ELSE FillAllFrom(r.w, a, ts, k + 1)
         IN filled(Fill(w, a, ts[k], <<>>))

FillAll(w, a, ts) == FillAllFrom(w, a, ts, 1)

\* A ParseArgs that hands out the store it built even when FillAll failed.
ParseArgsFilledKeepsStore(d, f) == [w |-> f.w, args |-> d.args, err |-> f.err]

\* ParseArgs once FillAll has returned f.
ParseArgsFilled(d, f) ==
    IF f.err # NoError
    THEN [w |-> f.w, args |-> NilArgs, err |-> f.err]
    ELSE [w |-> f.w, args |-> d.args, err |-> NoError]

\* ParseArgs once its decode loop has ended with d.
ParseArgsDecoded(d, ts) ==
    IF d.err # NoError
    THEN [w |-> d.w, args |-> NilArgs, err |-> d.err]
    ELSE IF Len(ts) > 0
    THEN ParseArgsFilled(d, FillAll(d.w, d.args, ts))
    ELSE [w |-> d.w, args |-> d.args, err |-> NoError]

\* ParseArgs once getArgList has returned l.
ParseArgsListed(l, e, ts) ==
    IF l.err # NoError THEN [w |-> l.w, args |-> NilArgs, err |-> l.err]
    ELSE ParseArgsDecoded(decodeLoop(l.w, e, NewArgs, l.args, 1), ts)

\* ParseArgs(targets...): what it returns (args, err) and the world after it.
ParseArgs(w, e, ts) == ParseArgsListed(getArgList(w, e), e, ts)

-----------------------------------------------------------------------------
(* The environments the host may have exported.                             *)

MaxSize == 2    \* largest declared size of a sequence argument
MaxOuter == 2   \* largest declared outer size of a group argument
MaxInner == 2   \* largest size a group's per-index descriptor declares

nA == <<"a">>
nB == <<"b">>

\* A type descriptor base[/n[/g]].
Desc1(base) == base
Desc2(base, n) == base \o <<"/">> \o Itoa(n)
Desc3(base, n, g) == base \o <<"/">> \o Itoa(n) \o <<"/">> \o Itoa(g)

sString == <<"s","t","r","i","n","g">>
Bases == {sStr, sBool, sInt, sFloat, sString}

\* Raw values worth exporting for an argument of a base type: ones its
\* converter accepts and ones it rejects.
RawOf(base) ==
    CASE base = sBool -> {<<"T","r","U","e">>, <<"n","o">>}
      [] base = sInt -> {<<"7">>, <<"x">>}
      [] base = sFloat -> {<<"1",".","5">>, <<"7">>}
      [] OTHER -> {<<"v">>}

\* Every assignment of raw values to a subset of the keys.
SlotFrags(keys, raws) == UNION {[K -> raws] : K \in SUBSET keys}

\* A scalar is exported with some more raw values.
ScalarRawOf(base) ==
    CASE base = sBool -> RawOf(base) \cup {<<"F","a","l","s","E">>}
      [] base = sFloat -> RawOf(base) \cup {<<"x">>}
      [] OTHER -> RawOf(base)

ScalarFrags(n, base) ==
    {(TypeKey(n, NilIndex) :> Desc1(base)) @@ v :
        v \in SlotFrags({ValueKey(n, NilIndex, NilIndex)}, ScalarRawOf(base))}

SliceFrags(n, base, size) ==
    {(TypeKey(n, NilIndex) :> Desc2(base, size)) @@ v :
        v \in SlotFrags({ValueKey(n, Index(i), NilIndex) : i \in 0..(size - 1)},
                        RawOf(base))}

\* What the host may export for outer index i of a group: nothing, or a
\* per-index descriptor of one of the sizes with some of its slots.
GroupIndexFrags(n, base, raws, sizes, i) ==
    {EmptyMap} \cup
    UNION {{(TypeKey(n, Index(i)) :> Desc2(base, m)) @@ v :
              v \in SlotFrags({ValueKey(n, Index(i), Index(j)) : j \in 0..(m - 1)}, raws)} :
           m \in sizes}

RECURSIVE GroupIndexesFrom(_, _, _, _, _, _)
GroupIndexesFrom(n, base, raws, sizes, i, s) ==
    IF i >= s THEN {EmptyMap}
    ELSE {f @@ r : f \in GroupIndexFrags(n, base, raws, sizes, i),
                   r \in GroupIndexesFrom(n, base, raws, sizes, i + 1, s)}

\* The formal third segment of a group descriptor: larger than every size.
GroupFormality == MaxInner + MaxOuter + 1

GroupFrags(n, base, raws, sizes, s, g) ==
    {(TypeKey(n, NilIndex) :> Desc3(base, s, g)) @@ r :
        r \in GroupIndexesFrom(n, base, raws, sizes, 0, s)}

\* Descriptors the grammar rejects, and sizes it accepts but make cannot take.
BadDescs ==
    {sStr \o <<"/","x">>, sStr \o <<"/","1","/","y">>, sStr \o <<"/","1","/","2","/","3">>,
     sInt \o <<"/">>, sStr \o <<"/","-","1">>, sStr \o <<"/","-","1","/","1">>,
     sStr \o <<"/","0","/","-","1">>}

BadFrags(n) == {(TypeKey(n, NilIndex) :> d) : d \in BadDescs}

\* Per-index descriptors of a group that differ from its top-level one.
OddGroupFrags(n) ==
    {(TypeKey(n, NilIndex) :> Desc3(sStr, 1, GroupFormality))
        @@ (TypeKey(n, Index(0)) :> d)
        @@ (ValueKey(n, Index(0), Index(0)) :> <<"7">>) :
     d \in {sStr, Desc2(sInt, 1), sStr \o <<"/","x">>, sStr \o <<"/","-","1">>,
            Desc3(sStr, 1, 1)}}

ListOf(l) == (ListKey :> l)

Lists ==
    {<<>>, <<" ">>, <<"a">>, <<"a"," ","b">>, <<"b"," "," ","a">>, <<"A","\t","a">>,
     <<" ","B"," ">>}

EnvsScalar ==
    {l @@ fa @@ fb :
        l \in {EmptyMap} \cup {ListOf(x) : x \in Lists},
        fa \in {EmptyMap} \cup BadFrags(nA) \cup UNION {ScalarFrags(nA, b) : b \in Bases},
        fb \in {EmptyMap} \cup ScalarFrags(nB, sStr)}

EnvsSlice ==
    {ListOf(l) @@ fa @@ fb :
        l \in {<<"a">>, <<"b"," ","a">>},
        fa \in UNION {SliceFrags(nA, b, n) : b \in Bases, n \in 0..MaxSize},
        fb \in {(TypeKey(nB, NilIndex) :> sStr)}}

EnvsGroup ==
    {ListOf(<<"a">>) @@ fa :
        fa \in OddGroupFrags(nA)
               \cup UNION {GroupFrags(nA, sStr, {<<"v">>}, 0..MaxInner, s, GroupFormality) :
                             s \in 0..(MaxOuter - 1)}
               \cup GroupFrags(nA, sStr, {<<"v">>}, {0, MaxInner}, MaxOuter, GroupFormality)
               \cup UNION {GroupFrags(nA, sBool, {<<"T","r","U","e">>}, {0, MaxInner}, s, 1) :
                             s \in 0..MaxOuter}
               \cup GroupFrags(nA, sBool, {<<"F","a","l","s","E">>, <<"n","o">>}, {1},
                                MaxOuter, 1)
               \cup GroupFrags(nA, sInt, {<<"x">>}, 0..MaxInner, 1, 1)
               \cup GroupFrags(nA, sFloat, {<<"x">>}, {1}, 1, 1)}

Envs == EnvsScalar \cup EnvsSlice \cup EnvsGroup

-----------------------------------------------------------------------------
(* The caller: a main() that calls ParseArgs once and then uses the store.  *)

fA(type) == StructField(<<"A">>, type, FALSE, <<>>)
fB(type) == StructField(<<"B">>, type, FALSE, <<>>)
fC(type) == StructField(<<"C">>, type, FALSE, <<>>)

CfgA == TStruct("CfgA", <<fA(TString)>>)
CfgB == TStruct("CfgB", <<fB(TString)>>)
CfgSlice == TStruct("CfgSlice", <<fA(TSlice(TString))>>)
CfgGroup == TStruct("CfgGroup", <<fA(TSlice(TSlice(TPtr(TString))))>>)
CfgEmpty == TStruct("CfgEmpty", <<>>)

\* What a struct with one string field holds when the caller has set it.
sOld == <<"o","l","d">>
SetByCaller == StructV(<<StrV(sOld)>>)

\* A target the caller declares: its type, the value it holds before the call,
\* and whether the caller passes its address (&cfg) or the value itself.
Target(type, before, byPointer) ==
    [type |-> type, before |-> before, byPointer |-> byPointer]

\* The variadic targets of the ParseArgs calls the model makes.
ParseTargets ==
    {<<>>,
     <<Target(CfgA, Zero(CfgA), TRUE)>>,
     <<Target(CfgSlice, Zero(CfgSlice), TRUE)>>,
     <<Target(CfgGroup, Zero(CfgGroup), TRUE)>>,
     <<Target(CfgA, SetByCaller, TRUE), Target(CfgB, SetByCaller, TRUE)>>,
     <<Target(CfgEmpty, Zero(CfgEmpty), TRUE)>>,
     <<Target(CfgA, Zero(CfgA), FALSE)>>}

\* The caller's variables live in the heap; the interface{} passed for each is
\* a pointer to it, or a copy of it.
Declare(h, ts) == h \o [i \in 1..Len(ts) |-> ts[i].before]
Passed(h, ts) ==
    [i \in 1..Len(ts) |->
        IF ts[i].byPointer
        THEN [type |-> TPtr(ts[i].type), val |-> Ptr(Len(h) + i), before |-> ts[i].before]
        ELSE [type |-> ts[i].type, val |-> ts[i].before, before |-> ts[i].before]]

NoCall == [op |-> "none"]

Init ==
    /\ env \in Envs
    /\ heap = <<>>
    /\ phase = "init"
    /\ args = NilArgs
    /\ err = NoError
    /\ targets = <<>>
    /\ reads = <<>>
    /\ got = NoCall
    /\ fill = NoCall

\* The caller's state once ParseArgs has returned r (or panicked).
Returned(r, passed) ==
    /\ phase' = IF IsPanic(r.err) THEN "panicked" ELSE "returned"
    /\ args' = r.args
    /\ err' = r.err
    /\ heap' = r.w.heap
    /\ reads' = r.w.reads
    /\ targets' = passed

\* args, err := ParseArgs(targets...)
CallParseArgs(ts) ==
    /\ phase = "init"
    /\ Returned(ParseArgs([heap |-> Declare(heap, ts), reads |-> reads,
                           looked |-> <<>>, depth |-> 0],
                          env, Passed(heap, ts)),
                Passed(heap, ts))
    /\ UNCHANGED <<env, got, fill>>

HaveArgs == phase = "returned" /\ ~args.nil

\* A run reads the store once: the accessors change nothing but got, so a
\* second read starts from a state that differs from this one in got alone.
FirstRead == HaveArgs /\ got = NoCall

AccessNames == {nA, nB, <<"A">>}
Kinds == {"String", "Bool", "Int", "Float"}

\* val, ok := args.GetString(name) and its three siblings
CallGetSingle(kind, name) ==
    /\ FirstRead
    /\ LET r == CASE kind = "String" -> GetString(args, heap, name)
                  [] kind = "Bool" -> GetBool(args, heap, name)
                  [] kind = "Int" -> GetInt(args, heap, name)
                  [] OTHER -> GetFloat(args, heap, name)
       IN got' = [op |-> "Get", kind |-> kind, name |-> name, val |-> r.val, ok |-> r.ok]
    /\ UNCHANGED <<env, heap, phase, args, err, targets, reads, fill>>

\* val, ok := args.GetStringSlice(name) and its three siblings
CallGetSlice(kind, name) ==
    /\ FirstRead
    /\ LET r == CASE kind = "String" -> GetStringSlice(args, heap, name)
                  [] kind = "Bool" -> GetBoolSlice(args, heap, name)
                  [] kind = "Int" -> GetIntSlice(args, heap, name)
                  [] OTHER -> GetFloatSlice(args, heap, name)
       IN got' = [op |-> "GetSlice", kind |-> kind, name |-> name,
                  val |-> r.val, ok |-> r.ok]
    /\ UNCHANGED <<env, heap, phase, args, err, targets, reads, fill>>

\* val, ok := args.GetStringGroups(name) and its three siblings
CallGetGroups(kind, name) ==
    /\ FirstRead
    /\ LET r == CASE kind = "String" -> GetStringGroups(args, heap, name)
                  [] kind = "Bool" -> GetBoolGroups(args, heap, name)
                  [] kind = "Int" -> GetIntGroups(args, heap, name)
                  [] OTHER -> GetFloatGroups(args, heap, name)
       IN got' = [op |-> "GetGroups", kind |-> kind, name |-> name,
                  val |-> r.val, ok |-> r.ok]
    /\ UNCHANGED <<env, heap, phase, args, err, targets, reads, fill>>

\* all := args.GetAllArgs()
CallGetAllArgs ==
    /\ FirstRead
    /\ got' = [op |-> "GetAllArgs", val |-> GetAllArgs(args, heap)]
    /\ UNCHANGED <<env, heap, phase, args, err, targets, reads, fill>>

Next ==
    \/ \E ts \in ParseTargets : CallParseArgs(ts)
    \/ \E kind \in Kinds, name \in AccessNames : CallGetSingle(kind, name)
    \/ \E kind \in Kinds, name \in AccessNames : CallGetSlice(kind, name)
    \/ \E kind \in Kinds, name \in AccessNames : CallGetGroups(kind, name)
    \/ CallGetAllArgs

Spec == Init /\ [][Next]_vars

-----------------------------------------------------------------------------
(* The caller of Fill: a main() that decodes the store with ParseArgs() and *)
(* then fills a struct it declared, possibly after setting its fields.      *)

nAB == <<"a","_","b">>

\* A raw value the converter of a base accepts.
GoodRaw(base) ==
    CASE base = sBool -> <<"T","r","U","e">>
      [] base = sInt -> <<"7">>
      [] base = sFloat -> <<"1",".","5">>
      [] OTHER -> <<"v">>

KnownBases == {sStr, sBool, sInt, sFloat}
GroupBases == {sStr, sInt}

\* A declared string scalar, exported with raw or not exported.
StrFrags(n, raw) ==
    {(TypeKey(n, NilIndex) :> sStr),
     (TypeKey(n, NilIndex) :> sStr) @@ (ValueKey(n, NilIndex, NilIndex) :> raw)}

FillScalarFrags(n, base) ==
    {(TypeKey(n, NilIndex) :> Desc1(base)) @@ v :
        v \in SlotFrags({ValueKey(n, NilIndex, NilIndex)}, {GoodRaw(base)})}

FillSliceFrags(n, base, size) ==
    {(TypeKey(n, NilIndex) :> Desc2(base, size)) @@ v :
        v \in SlotFrags({ValueKey(n, Index(i), NilIndex) : i \in 0..(size - 1)},
                        {GoodRaw(base)})}

\* A group whose every index has its descriptor, of one of the sizes.
FillGroupIndexFrags(n, base, sizes, i) ==
    UNION {{(TypeKey(n, Index(i)) :> Desc2(base, m)) @@ v :
              v \in SlotFrags({ValueKey(n, Index(i), Index(j)) : j \in 0..(m - 1)},
                              {GoodRaw(base)})} :
           m \in sizes}

RECURSIVE FillGroupIndexesFrom(_, _, _, _, _)
FillGroupIndexesFrom(n, base, sizes, i, s) ==
    IF i >= s THEN {EmptyMap}
    ELSE {f @@ r : f \in FillGroupIndexFrags(n, base, sizes, i),
                   r \in FillGroupIndexesFrom(n, base, sizes, i + 1, s)}

FillGroupFrags(n, base, sizes, s) ==
    {(TypeKey(n, NilIndex) :> Desc3(base, s, GroupFormality)) @@ r :
        r \in FillGroupIndexesFrom(n, base, sizes, 0, s)}

\* The environments of the runs that call Fill: a, b and a_b are declared and
\* every exported value converts, so that ParseArgs() returns a store.
EnvsFill ==
    {ListOf(<<"a"," ","b"," ","a","_","b">>) @@ fa @@ fb
        @@ (TypeKey(nAB, NilIndex) :> sStr) @@ (ValueKey(nAB, NilIndex, NilIndex) :> <<"u">>) :
        fa \in UNION {FillScalarFrags(nA, b) : b \in KnownBases \cup {sString}},
        fb \in StrFrags(nB, <<"w">>)}
    \cup
    {ListOf(<<"a"," ","b"," ","a","_","b">>) @@ fa
        @@ (TypeKey(nB, NilIndex) :> sStr)
        @@ (TypeKey(nAB, NilIndex) :> sStr) :
        fa \in UNION {FillSliceFrags(nA, b, n) : b \in KnownBases, n \in 0..MaxSize}
               \cup UNION {FillGroupFrags(nA, b, 0..MaxInner, s) :
                             b \in GroupBases, s \in 0..(MaxOuter - 1)}
               \cup UNION {FillGroupFrags(nA, b, {0, MaxInner}, MaxOuter) : b \in GroupBases}
               \cup FillSliceFrags(nA, sString, MaxSize)
               \cup FillGroupFrags(nA, sString, 0..MaxInner, 1)}

\* What a leaf of a struct holds when the caller has set it.
SetLeaf(t) ==
    CASE t.k = "string" -> StrV(sOld)
      [] t.k = "bool" -> BoolV(TRUE)
      [] t.k = "int" -> IntV(9)
      [] t.k = "int64" -> [k |-> "int64", v |-> 9]
      [] OTHER -> FloatV([m |-> 9, e |-> 0])

RECURSIVE SetUp(_, _)
RECURSIVE SetUpFields(_, _, _, _)

\* p := &v for the value just set up.
SetUpPtr(r) == [w |-> Alloc(r.w, r.val), val |-> Ptr(Len(r.w.heap) + 1)]
\* s := []T{v} for the value just set up.
SetUpSlice(r) == [w |-> Alloc(r.w, ArrayCell(<<r.val>>)), val |-> SliceOf(Len(r.w.heap) + 1)]
SetUpFieldsNext(r, fields, i, acc) == SetUpFields(r.w, fields, i + 1, Append(acc, r.val))

SetUpFields(w, fields, i, acc) ==
    IF i > Len(fields) THEN [w |-> w, val |-> StructV(acc)]
    ELSE SetUpFieldsNext(SetUp(w, fields[i].Type), fields, i, acc)

\* A value of type t every part of which the caller has set: leaves are not
\* zero, pointers point to set values, slices hold one set element.
SetUp(w, t) ==
    CASE t.k = "ptr" -> SetUpPtr(SetUp(w, t.elem))
      [] t.k = "slice" -> SetUpSlice(SetUp(w, t.elem))
      [] t.k = "struct" -> SetUpFields(w, t.fields, 1, <<>>)
      [] OTHER -> [w |-> w, val |-> SetLeaf(t)]

LeafTypes == {TString, TBool, TInt, TFloat64}
Shapes(t) ==
    {t, TPtr(t), TSlice(t), TSlice(TPtr(t)), TSlice(TSlice(t)), TSlice(TSlice(TPtr(t)))}

\* A struct with one field.
Cfg(field) == TStruct("Cfg", <<field>>)
Tagged(name, type, tag) == StructField(name, type, TRUE, tag)

sB == <<"b">>
sBRequired == <<"b"," ","r","e","q","u","i","r","e","d","=","t","r","u","e">>
sBLastRequired ==
    <<"b"," ","l","a","s","t","=","1"," ","r","e","q","u","i","r","e","d","=","1">>
sRequiredTrue == <<"r","e","q","u","i","r","e","d","=","t","r","u","e">>
sDashRequired == <<"-"," ","r","e","q","u","i","r","e","d","=","t","r","u","e">>

Tags == {sB, sBRequired, sBLastRequired, <<>>, sRequiredTrue, sDash, sDashRequired}

Inner(field) == TStruct("Inner", <<field>>)

\* The struct types the caller fills.
FillTypes ==
    {Cfg(fA(t)) : t \in UNION {Shapes(l) : l \in LeafTypes}}
    \cup {Cfg(Tagged(<<"A">>, TString, tag)) : tag \in Tags}
    \cup {Cfg(StructField(<<"a">>, TString, FALSE, <<>>)),
          Cfg(Tagged(<<"a">>, TString, sB)),
          TStruct("Cfg2", <<fA(TString), fB(TPtr(TString))>>),
          TStruct("Cfg2", <<Tagged(<<"B">>, TString, sDashRequired), fA(TString)>>),
          Cfg(fA(Inner(fB(TString)))),
          Cfg(fA(TPtr(Inner(fB(TString))))),
          Cfg(fA(TPtr(Inner(fB(TPtr(TStruct("Empty", <<>>))))))),
          TStruct("Cfg2", <<fA(TPtr(TStruct("Inner2", <<fB(TString), fC(TString)>>))),
                            fB(TString)>>),
          Cfg(fA(Inner(fB(Inner(fC(TString)))))),
          TStruct("Cfg2", <<Tagged(<<"X">>, TPtr(Inner(fB(TString))), sDash), fA(TString)>>),
          Cfg(fA(Inner(Tagged(<<"X">>, TString, sBRequired)))),
          Cfg(fA(Inner(Tagged(<<"B">>, TString, sRequiredTrue)))),
          Cfg(fA(Inner(Tagged(<<"B">>, TString, sDashRequired)))),
          Cfg(Tagged(<<"X">>, Inner(fB(TString)), nA)),
          TStruct("Cfg2", <<Tagged(<<"X">>, TPtr(Inner(fB(TString))), nA), fB(TString)>>),
          Cfg(fA(Inner(Tagged(<<"Y">>, Inner(fB(TString)), nA)))),
          Cfg(fA(TInt64)),
          Cfg(fA(TPtr(TSlice(TString)))),
          Cfg(StructField(<<"C">>, TPtr(TString), FALSE, <<>>)),
          TStruct("Cfg2", <<fB(TString), StructField(<<"C">>, TPtr(TString), FALSE, <<>>)>>)}

\* A struct variable the caller declares: set says whether the caller has set
\* its fields (var cfg T, or cfg := T{...}).
FillTargets == {[type |-> t, set |-> b] : t \in FillTypes, b \in BOOLEAN}

Declared(w, t) == IF t.set THEN SetUp(w, t.type) ELSE [w |-> w, val |-> Zero(t.type)]

\* err := args.Fill(&cfg) for the variable whose value d.val was just set up.
FillVar(d, t) ==
    [r |-> Fill(Alloc(d.w, d.val), args, Interface(TPtr(t.type), Ptr(Len(d.w.heap) + 1)),
                <<>>),
     addr |-> Len(d.w.heap) + 1,
     before |-> d.val,
     start |-> Alloc(d.w, d.val).heap]

\* The caller's state once Fill has returned f.r.
FillReturned(f, t) ==
    /\ fill' = [op |-> "Fill", type |-> t.type, set |-> t.set, addr |-> f.addr,
                before |-> f.before, err |-> f.r.err, looked |-> f.r.w.looked,
                wrote |-> FALSE, start |-> f.start]
    /\ heap' = f.r.w.heap

\* cfg := T{...}; err := args.Fill(&cfg)
CallFill(t) ==
    /\ HaveArgs
    /\ fill = NoCall
    /\ FillReturned(FillVar(Declared([heap |-> heap, reads |-> reads, looked |-> <<>>, depth |-> 0], t),
                            t), t)
    /\ UNCHANGED <<env, phase, args, err, targets, reads, got>>

\* What a struct of a self-referential type holds before the call: zero, or
\* (set) every pointer to its own type pointing to the struct itself, which
\* is at heap address addr.
RECURSIVE Looped(_, _)
Looped(t, addr) ==
    CASE t.k = "ptr" /\ "fields" \notin DOMAIN t.elem -> Ptr(addr)
      [] t.k = "struct" ->
           StructV([i \in 1..Len(TypeDef(t).fields) |->
                      Looped(TypeDef(t).fields[i].Type, addr)])
      [] t.k = "ptr" -> NilPtr
      [] OTHER -> SetLeaf(t)

\* var n T (or n with its pointers set to &n); err := args.Fill(&n)
CallFillSelf(t, set) ==
    /\ HaveArgs
    /\ fill = NoCall
    /\ LET addr == Len(heap) + 1
           before == IF set THEN Looped(t, addr) ELSE Zero(t)
           r == Fill([heap |-> Append(heap, before), reads |-> reads, looked |-> <<>>,
                      depth |-> 0],
                     args, Interface(TPtr(t), Ptr(addr)), <<>>)
       IN /\ fill' = [op |-> "FillSelf", type |-> t, set |-> set, addr |-> addr,
                      before |-> before, err |-> r.err, returned |-> ~IsPanic(r.err)]
          /\ heap' = r.w.heap
    /\ UNCHANGED <<env, phase, args, err, targets, reads, got>>

\* The non-nil pointers the filled struct holds in a field of type *T, in a
\* slot of a field of type []*T or in a slot of a field of type [][]*T, T a
\* basic type.
PointersOfField(h, type, val) ==
    IF type.k = "ptr" /\ type.elem.k \notin {"struct", "slice", "ptr"}
    THEN {val} \ {NilPtr}
    ELSE IF /\ type.k = "slice"
            /\ type.elem.k = "ptr"
            /\ type.elem.elem.k \notin {"struct", "slice", "ptr"}
            /\ ~val.nil
    THEN Range(Elems(h, val)) \ {NilPtr}
    ELSE IF /\ type.k = "slice"
            /\ type.elem.k = "slice"
            /\ type.elem.elem.k = "ptr"
            /\ type.elem.elem.elem.k \notin {"struct", "slice", "ptr"}
            /\ ~val.nil
    THEN UNION {Range(Elems(h, sub)) : sub \in {x \in Range(Elems(h, val)) : ~x.nil}}
         \ {NilPtr}
    ELSE {}
PointersOfTarget ==
    UNION {PointersOfField(heap, fill.type.fields[i].Type, heap[fill.addr].f[i]) :
             i \in 1..Len(fill.type.fields)}

\* The values the caller assigns to a variable that holds old: the value a
\* caller sets a leaf to, and the zero value.
WrittenValues(old) == {SetLeaf(old), Zero(old)}

\* *cfg.A = v, *cfg.A[i] = v or *cfg.A[i][j] = v: the caller assigns through
\* a pointer that Fill put into the struct.
CallerWrites ==
    /\ fill # NoCall
    /\ fill.op = "Fill"
    /\ fill.err = NoError
    /\ ~fill.wrote
    /\ \E p \in PointersOfTarget : \E v \in WrittenValues(heap[p.addr]) :
          heap' = [heap EXCEPT ![p.addr] = v]
    /\ fill' = [fill EXCEPT !.wrote = TRUE]
    /\ UNCHANGED <<env, phase, args, err, targets, reads, got>>

GoTypes ==
    {TStruct("Cfg2", <<fA(TString), fB(TPtr(TString))>>),
     TStruct("Cfg2", <<Tagged(<<"X">>, TPtr(Inner(fB(TString))), nA), fB(TString)>>),
     TStruct("Cfg2", <<fB(TString), StructField(<<"C">>, TPtr(TString), FALSE, <<>>)>>),
     Cfg(fA(TSlice(TPtr(TInt))))}

\* var c1 T1; var c2 T2 (or both set by the caller), declared one after the
\* other in the world w.
DeclaredBoth(w, t1, t2, set) ==
    LET first == Declared(w, [type |-> t1, set |-> set])
        second == Declared(Alloc(first.w, first.val), [type |-> t2, set |-> set])
    IN [w |-> Alloc(second.w, second.val),
        addrs |-> <<Len(first.w.heap) + 1, Len(second.w.heap) + 1>>]

\* FillAll has returned r for the two variables declared in d.
FillAllReturned(d, r, t1, t2, set) ==
    /\ fill' = [op |-> "FillAll", set |-> set, addr |-> d.addrs[1],
                targets |-> <<[type |-> t1, addr |-> d.addrs[1]],
                              [type |-> t2, addr |-> d.addrs[2]]>>,
                err |-> r.err, looked |-> r.w.looked, wrote |-> FALSE,
                start |-> d.w.heap]
    /\ heap' = r.w.heap

FillAllVars(d, t1, t2, set) ==
    FillAllReturned(d, FillAll(d.w, args, <<Interface(TPtr(t1), Ptr(d.addrs[1])),
                                            Interface(TPtr(t2), Ptr(d.addrs[2]))>>),
                    t1, t2, set)

\* var c1 T1; var c2 T2; err := args.FillAll(&c1, &c2)
CallFillAll(t1, t2, set) ==
    /\ HaveArgs
    /\ fill = NoCall
    /\ FillAllVars(DeclaredBoth([heap |-> heap, reads |-> reads, looked |-> <<>>, depth |-> 0],
                                t1, t2, set), t1, t2, set)
    /\ UNCHANGED <<env, phase, args, err, targets, reads, got>>

InitFill ==
    /\ env \in EnvsFill
    /\ heap = <<>>
    /\ phase = "init"
    /\ args = NilArgs
    /\ err = NoError
    /\ targets = <<>>
    /\ reads = <<>>
    /\ got = NoCall
    /\ fill = NoCall

NextFill ==
    \/ CallParseArgs(<<>>)
    \/ \E t \in FillTargets : CallFill(t)
    \/ CallerWrites

SpecFill == InitFill /\ [][NextFill]_vars

-----------------------------------------------------------------------------
(* Several goroutines call Fill on the same store, each with a struct of its
   own.  A goroutine takes one step per iteration of the loop of Fill over
   the fields of its struct; whatever Fill does for one field (the recursion
   into an embedded struct included) touches the store only by reading it. *)

Goroutines == {1, 2}

\* The goroutine that is to fill the struct of type t at heap address addr.
Goroutine(t, addr) == [type |-> t, addr |-> addr, i |-> 1, err |-> NoError]
FillEnded(g) == g.err # NoError \/ g.i > Len(g.type.fields)

GoStarted(d, t1, t2, set) ==
    /\ heap' = d.w.heap
    /\ fill' = [op |-> "go", set |-> set, start |-> d.w.heap, store |-> Len(heap),
                gs |-> <<Goroutine(t1, d.addrs[1]), Goroutine(t2, d.addrs[2])>>,
                order |-> <<>>]

\* go args.Fill(&c1); go args.Fill(&c2)
GoFill(t1, t2, set) ==
    /\ HaveArgs
    /\ fill = NoCall
    /\ GoStarted(DeclaredBoth([heap |-> heap, reads |-> reads, looked |-> <<>>, depth |-> 0], t1, t2, set),
                 t1, t2, set)
    /\ UNCHANGED <<env, phase, args, err, targets, reads, got>>

\* Goroutine g has run the loop body for its field i with result r.
Stepped(g, r) ==
    /\ heap' = r.w.heap
    /\ fill' = [fill EXCEPT !.gs[g].err = r.err,
                            !.gs[g].i = IF r.err = NoError THEN @ + 1 ELSE @,
                            !.order = Append(@, g)]

\* One iteration of the loop of Fill in goroutine g.
FillStep(g) ==
    /\ fill # NoCall
    /\ fill.op = "go"
    /\ ~FillEnded(fill.gs[g])
    /\ Stepped(g, fillLoopBody([heap |-> heap, reads |-> reads, looked |-> <<>>, depth |-> 0], args,
                               fill.gs[g].addr, <<>>, fill.gs[g].type, <<>>, fill.gs[g].i))
    /\ UNCHANGED <<env, phase, args, err, targets, reads, got>>

\* The environments of these runs, a part of EnvsFill: a is a string, an
\* integer or a sequence of integers.
EnvsGo ==
    {ListOf(<<"a"," ","b"," ","a","_","b">>) @@ fa @@ fb
        @@ (TypeKey(nAB, NilIndex) :> sStr) @@ (ValueKey(nAB, NilIndex, NilIndex) :> <<"u">>) :
        fa \in FillScalarFrags(nA, sStr) \cup FillScalarFrags(nA, sInt),
        fb \in StrFrags(nB, <<"w">>)}
    \cup
    {ListOf(<<"a"," ","b"," ","a","_","b">>) @@ fa
        @@ (TypeKey(nB, NilIndex) :> sStr)
        @@ (TypeKey(nAB, NilIndex) :> sStr) :
        fa \in UNION {FillSliceFrags(nA, sInt, n) : n \in 0..MaxSize}}

InitGo ==
    /\ env \in EnvsGo
    /\ heap = <<>>
    /\ phase = "init"
    /\ args = NilArgs
    /\ err = NoError
    /\ targets = <<>>
    /\ reads = <<>>
    /\ got = NoCall
    /\ fill = NoCall

NextGo ==
    \/ CallParseArgs(<<>>)
    \/ \E t1, t2 \in GoTypes : \E set \in BOOLEAN : GoFill(t1, t2, set)
    \/ \E g \in Goroutines : FillStep(g)

SpecGo == InitGo /\ [][NextGo]_vars

\* The calls of Fill and FillAll on structs of every type, in the
\* environments of EnvsGo.
NextOrder ==
    \/ CallParseArgs(<<>>)
    \/ \E t \in FillTargets : CallFill(t)
    \/ \E t \in SelfTypes, set \in BOOLEAN : CallFillSelf(t, set)
    \/ \E t1, t2 \in GoTypes : \E set \in BOOLEAN : CallFillAll(t1, t2, set)

SpecOrder == InitGo /\ [][NextOrder]_vars

-----------------------------------------------------------------------------
(* The type grammar on its own: a descriptor string is parsed.              *)

MaxSegments == 4   \* most segments of a descriptor string

TypeBases == {sStr, sInt, sString, <<>>}
SizeTexts ==
    {<<"0">>, <<"2">>, <<"1","0">>, <<"-","1">>, <<"+","3">>, <<"x">>, <<"1","x">>, <<>>}

\* Descriptor strings of one to MaxSegments segments.
TypeStrings ==
    {Join(<<b>> \o t, <<"/">>) :
        b \in TypeBases,
        t \in UNION {[1..n -> SizeTexts] : n \in 0..(MaxSegments - 1)}}

InitTypes ==
    /\ env = EmptyMap
    /\ heap = <<>>
    /\ phase = "init"
    /\ args = NilArgs
    /\ err = NoError
    /\ targets = <<>>
    /\ reads = <<>>
    /\ got \in {[op |-> "typeStr", typeStr |-> d] : d \in TypeStrings}
    /\ fill = NoCall

\* typeInfo, err := parseTypeInfo(typeStr)
CallParseTypeInfo ==
    /\ got.op = "typeStr"
    /\ got' = [op |-> "parseTypeInfo", typeStr |-> got.typeStr,
               typeInfo |-> parseTypeInfo(got.typeStr).typeInfo,
               err |-> parseTypeInfo(got.typeStr).err]
    /\ UNCHANGED <<env, heap, phase, args, err, targets, reads, fill>>

NextTypes == CallParseTypeInfo

SpecTypes == InitTypes /\ [][NextTypes]_vars

-----------------------------------------------------------------------------
(* The text functions on their own: each is applied to a text.              *)

MaxChars == 4   \* most characters of an identifier

\* The characters identifiers are made of here.
IdentChars ==
    {<<"a">>, <<"A">>, <<"1">>, <<"_">>, LowerEAcute, UpperEAcute, LowerOUmlaut}

RECURSIVE Flatten(_)
Flatten(ss) == IF ss = <<>> THEN <<>> ELSE Head(ss) \o Flatten(Tail(ss))

\* The characters of a text of ASCII characters.
CharsOf(text) == [i \in 1..Len(text) |-> <<text[i]>>]

sLogFile == <<"L","o","g","F","i","l","e">>
sUserID == <<"U","s","e","r","I","D">>
sOOMReason == <<"O","O","M","R","e","a","s","o","n">>
sHTTPConfig == <<"H","T","T","P","C","o","n","f","i","g">>
sEnableTLSV12Support ==
    <<"E","n","a","b","l","e","T","L","S","V","1","2","S","u","p","p","o","r","t">>

\* Identifiers, as sequences of characters: a first character that is no
\* digit and up to most - 1 more, and the identifiers of the examples.
Identifiers(most) ==
    {c \in UNION {[1..n -> IdentChars] : n \in 1..most} : c[1] # <<"1">>}
    \cup {CharsOf(x) : x \in {sLogFile, sUserID, sOOMReason, sHTTPConfig,
                               sEnableTLSV12Support}}

MaxText == 4    \* most characters of a text that is split or sanitized

\* The texts that are split: a separator, a letter, and the characters the
\* scanner treats specially.
SplitChars == {" ", "a", "\"", "(", ")", "\\"}
SplitTexts(most) == UNION {[1..n -> SplitChars] : n \in 0..most}

MaxTokens == 3  \* most tokens of a tag

\* The tokens tags are made of: names, an empty token (two spaces in a row),
\* and key=value tokens of each kind of key.
TagTokens ==
    {<<"n">>, <<"m">>, <<>>, <<"r","e","q","u","i","r","e","d","=","t","r","u","e">>,
     <<"r","e","q","u","i","r","e","d","=","T","R","U","E">>,
     <<"r","e","q","u","i","r","e","d","=","\"","t","r","u","e","\"">>,
     <<"a","l","i","a","s","e","s","=","f",",","f","n">>,
     <<"t","y","p","e","=","e","n","u","m","(","a",",","b",")">>,
     <<"x","=","\"","y"," ","z","\"">>, <<"x","=","a","=","b">>}

sFlagName == <<"f","l","a","g","-","n","a","m","e">>
ExampleTokens ==
    <<sFlagName, <<"r","e","q","u","i","r","e","d","=","t","r","u","e">>,
      <<"t","y","p","e","=","s","t","r","i","n","g">>,
      <<"a","l","i","a","s","e","s","=","f",",","f","n">>>>

TagTokenLists(most) == UNION {[1..n -> TagTokens] : n \in 0..most} \cup {ExampleTokens}

\* The names that are sanitized, as sequences of characters: letters in both
\* cases, of ASCII and beyond, a digit and both separators (each of which is
\* an ordinary special character when the other one is the separator).
NameChars == {<<"a">>, <<"B">>, <<"1">>, <<"-">>, <<"_">>, UpperEAcute}
\* Inputs of TestSanitizeArgName.
sHelloWorldUnicode ==
    <<<<"h">>, LowerEAcute, <<"l">>, <<"l">>, <<"o">>, <<" ">>,
      <<"w">>, LowerOUmlaut, <<"r">>, <<"l">>, <<"d">>>>
sHello123World == CharsOf(<<"H","e","l","l","o","1","2","3","W","o","r","l","d">>)
sHelloSpacesWorld == CharsOf(<<"h","e","l","l","o"," "," "," ","w","o","r","l","d">>)
ExampleNames == {sHelloWorldUnicode, sHello123World, sHelloSpacesWorld}
Names(most) == UNION {[1..n -> NameChars] : n \in 0..most} \cup ExampleNames
Separators == {"-", "_"}

\* The inputs of the text functions: identifiers of up to chars characters,
\* texts and names of up to text characters, tags of up to tokens tokens.
Texts(chars, text, tokens) ==
    {[op |-> "identifier", chars |-> c, text |-> Flatten(c)] : c \in Identifiers(chars)}
    \cup {[op |-> "text", text |-> t] : t \in SplitTexts(text)}
    \cup {[op |-> "name", chars |-> c, text |-> Flatten(c)] : c \in Names(text)}
    \cup {[op |-> "tag", tokens |-> ts, text |-> Join(ts, <<" ">>)] :
             ts \in TagTokenLists(tokens)}

InitText ==
    /\ env = EmptyMap
    /\ heap = <<>>
    /\ phase = "init"
    /\ args = NilArgs
    /\ err = NoError
    /\ targets = <<>>
    /\ reads = <<>>
    /\ got \in Texts(MaxChars, MaxText, MaxTokens)
    /\ fill = NoCall

\* out := toParamName(name)
CallToParamName ==
    /\ got.op = "identifier"
    /\ got' = [op |-> "toParamName", chars |-> got.chars, text |-> got.text,
               out |-> toParamName(got.text)]
    /\ UNCHANGED <<env, heap, phase, args, err, targets, reads, fill>>

\* parts := specialSplit(s, ' ', true, true)
CallSpecialSplit ==
    /\ got.op = "text"
    /\ got' = [op |-> "specialSplit", text |-> got.text,
               parts |-> specialSplit(got.text, " ", TRUE, TRUE)]
    /\ UNCHANGED <<env, heap, phase, args, err, targets, reads, fill>>

\* name, options := ParseTag(tag)
CallParseTag ==
    /\ got.op = "tag"
    /\ got' = [op |-> "ParseTag", tokens |-> got.tokens, text |-> got.text,
               name |-> ParseTag(got.text).name, options |-> ParseTag(got.text).options]
    /\ UNCHANGED <<env, heap, phase, args, err, targets, reads, fill>>

\* out := SanitizeArgName(name, separator)
CallSanitizeArgName(separator) ==
    /\ got.op = "name"
    /\ got' = [op |-> "SanitizeArgName", chars |-> got.chars, text |-> got.text,
               separator |-> separator, out |-> SanitizeArgName(got.text, separator)]
    /\ UNCHANGED <<env, heap, phase, args, err, targets, reads, fill>>

NextText ==
    \/ CallToParamName
    \/ CallSpecialSplit
    \/ CallParseTag
    \/ \E separator \in Separators : CallSanitizeArgName(separator)

SpecText == InitText /\ [][NextText]_vars

-----------------------------------------------------------------------------
(* What the environment declares, read off the environment itself.          *)

\* The argument names the list declares.
Listed ==
    IF ListKey \in DOMAIN env THEN Range(LowerAll(Fields(env[ListKey]))) ELSE {}

\* The list is present and holds nothing but white space.
BlankList == ListKey \in DOMAIN env /\ \A i \in 1..Len(env[ListKey]) : IsSpace(env[ListKey][i])

\* The descriptor exported for a listed name, and for one index of a group.
DescOf(name) == env[TypeKey(name, NilIndex)]
SizeAt(name, i) == parseTypeInfo(env[TypeKey(name, Index(i))]).typeInfo.sliceSize

\* The base an accessor family serves, and the zero value of the family.
BaseOfKind(kind) ==
    CASE kind = "String" -> sStr
      [] kind = "Bool" -> sBool
      [] kind = "Int" -> sInt
      [] OTHER -> sFloat
ZeroOfKind(kind) ==
    CASE kind = "String" -> ZeroString
      [] kind = "Bool" -> ZeroBool
      [] kind = "Int" -> ZeroInt
      [] OTHER -> ZeroFloat

\* What a raw value exported under key converts to for a base; the zero value
\* when the key is not exported.
Exported(key) == key \in DOMAIN env
ValueAt(key, kind) ==
    IF Exported(key) THEN Convert(ConverterFor(BaseOfKind(kind)), env[key]).val
    ELSE ZeroOfKind(kind)

\* The struct a target passed by pointer holds now.
Holds(t) == heap[t.val.addr]

\* The store's group maps of an accessor family.
GroupsOf(kind) ==
    CASE kind = "String" -> args.stringGroups
      [] kind = "Bool" -> args.boolGroups
      [] kind = "Int" -> args.intGroups
      [] OTHER -> args.floatGroups

-----------------------------------------------------------------------------
(* C1: ParseArgs is all-or-nothing.  Whenever it has returned, it has       *)
(* returned exactly one of a non-nil store with a nil error or a nil store  *)
(* with a non-nil error; in particular the store it built is not handed out *)
(* when a decode step or the Fill of a target failed.                       *)
C1_AllOrNothing ==
    phase = "returned" => (args.nil <=> err # NoError)

\* Reached: the decode succeeded (the type of every listed name was read),
\* the Fill of a target then failed, and the caller got a nil store.
C1_Witness ==
    /\ phase = "returned"
    /\ args.nil
    /\ err.type = "error"
    /\ Len(targets) > 0
    /\ Len(reads) > 1

(* C2: ParseArgs returns ArgListMissingError exactly when OMNI_ARG_LIST is  *)
(* absent.  With the key present no such error is returned, and a blank     *)
(* list decodes to a store with zero entries without looking up any other   *)
(* key (a target with fields then fails in Fill, not in the decode).  With  *)
(* the key absent no other key is looked up and every target holds what it  *)
(* held before the call.                                                    *)
C2_ArgListMissing ==
    phase # "init" =>
        /\ phase = "returned"
             => (err.type = "ArgListMissingError" <=> ListKey \notin DOMAIN env)
        /\ BlankList =>
               /\ phase = "returned"
               /\ reads = <<ListKey>>
               /\ err.type \in {"nil", "error"}
               /\ (\A k \in 1..Len(targets) :
                      targets[k].type.k = "ptr" /\ targets[k].type.elem.fields = <<>>)
                      => /\ err = NoError
                         /\ ~args.nil
                         /\ args = NewArgs
        /\ ListKey \notin DOMAIN env =>
               /\ phase = "returned"
               /\ args.nil
               /\ reads = <<ListKey>>
               /\ \A k \in 1..Len(targets) :
                      targets[k].type.k = "ptr" => Holds(targets[k]) = targets[k].before

\* Reached: the list is absent, a target the caller had set was passed, and
\* ParseArgs returned ArgListMissingError.
C2_Witness ==
    /\ phase = "returned"
    /\ ListKey \notin DOMAIN env
    /\ err = ArgListMissingError
    /\ Len(targets) = 2
    /\ targets[1].before = SetByCaller

(* C3: for a sequence argument declared base/n, whatever subset of its      *)
(* indexed VALUE keys is exported, the sequence accessor of that base       *)
(* returns true with a sequence of exactly n slots, slot i holding the      *)
(* converted VALUE_i when exported and the zero value when not (n = 0       *)
(* included).                                                               *)
C3_SequenceAccessor ==
    (phase = "returned" /\ got.op = "GetSlice") =>
        \A n \in 0..MaxSize :
            (/\ ToLower(got.name) \in Listed
             /\ DescOf(ToLower(got.name)) = Desc2(BaseOfKind(got.kind), n))
            => /\ got.ok
               /\ ~got.val.nil
               /\ Len(got.val.elems) = n
               /\ \A i \in 0..(n - 1) :
                      got.val.elems[i + 1] =
                          ValueAt(ValueKey(ToLower(got.name), Index(i), NilIndex),
                                  got.kind)

\* Reached: a sequence of declared size MaxSize with its first slot unset and
\* its last slot set has been read through the accessor of its base.
C3_Witness ==
    /\ got.op = "GetSlice"
    /\ got.kind = "Int"
    /\ ToLower(got.name) \in Listed
    /\ DescOf(ToLower(got.name)) = Desc2(sInt, MaxSize)
    /\ ~Exported(ValueKey(ToLower(got.name), Index(0), NilIndex))
    /\ Exported(ValueKey(ToLower(got.name), Index(MaxSize - 1), NilIndex))
    /\ got.ok
    /\ got.val.elems[MaxSize] = IntV(7)

(* C4: for a group argument declared base/s/g the store holds exactly s     *)
(* inner sequences, inner sequence i having the length its own descriptor   *)
(* TYPE_i declares, whatever g and the other indexes declare; element       *)
(* (i, j) is set exactly when VALUE_i_j is exported, and the group accessor *)
(* returns the converted values (zero values for the unset ones).           *)
C4_GroupShape ==
    (phase = "returned" /\ ~args.nil /\ got.op = "GetGroups") =>
        LET name == ToLower(got.name)
            outer(ti) ==
                (ti.isGroup /\ ti.baseType = BaseOfKind(got.kind)) =>
                    /\ got.ok
                    /\ ~got.val.nil
                    /\ Len(got.val.elems) = ti.sliceSize
                    /\ Len(Elems(heap, GroupsOf(got.kind)[name])) = ti.sliceSize
                    /\ \A i \in 0..(ti.sliceSize - 1) :
                          /\ ~got.val.elems[i + 1].nil
                          /\ Len(got.val.elems[i + 1].elems) = SizeAt(name, i)
                          /\ Len(Elems(heap, Elems(heap, GroupsOf(got.kind)[name])[i + 1]))
                                = SizeAt(name, i)
                          /\ \A j \in 0..(SizeAt(name, i) - 1) :
                                /\ got.val.elems[i + 1].elems[j + 1] =
                                      ValueAt(ValueKey(name, Index(i), Index(j)), got.kind)
                                /\ Elems(heap,
                                         Elems(heap, GroupsOf(got.kind)[name])[i + 1])[j + 1].nil
                                      <=> ~Exported(ValueKey(name, Index(i), Index(j)))
        IN name \in Listed => outer(parseTypeInfo(DescOf(name)).typeInfo)

\* Reached: a group of MaxOuter inner sequences whose first index declares
\* no slot and whose last declares MaxInner, a size that differs from g, has
\* been read through the group accessor.
C4_Witness ==
    /\ got.op = "GetGroups"
    /\ got.kind = "Bool"
    /\ got.ok
    /\ ToLower(got.name) \in Listed
    /\ DescOf(ToLower(got.name)) = Desc3(sBool, MaxOuter, 1)
    /\ Len(got.val.elems) = MaxOuter
    /\ Len(got.val.elems[1].elems) = 0
    /\ Len(got.val.elems[MaxOuter].elems) = MaxInner
    /\ got.val.elems[MaxOuter].elems[MaxInner] = BoolV(TRUE)
    /\ got.val.elems[MaxOuter].elems[1] = BoolV(FALSE)

(* C5: a scalar accessor returns (zero value, false) for a name that is not *)
(* declared as a scalar of its base, (zero value, true) for a declared      *)
(* scalar whose VALUE key is not exported, and (converted value, true) for  *)
(* a declared scalar whose VALUE key is exported.                           *)
C5_ScalarAccessor ==
    (phase = "returned" /\ got.op = "Get") =>
        LET name == ToLower(got.name)
            base == BaseOfKind(got.kind)
            key == ValueKey(ToLower(got.name), NilIndex, NilIndex)
        IN /\ (\/ name \notin Listed
               \/ /\ DescOf(name) # base
                  /\ (\/ Contains(DescOf(name), "/")
                      \/ DescOf(name) \in {sStr, sBool, sInt, sFloat}))
                => got.val = ZeroOfKind(got.kind) /\ ~got.ok
           /\ (name \in Listed /\ DescOf(name) = base /\ ~Exported(key))
                => got.val = ZeroOfKind(got.kind) /\ got.ok
           /\ (name \in Listed /\ DescOf(name) = base /\ Exported(key))
                => got.val = ValueAt(key, got.kind) /\ got.ok

\* Reached: GetBool was called for a declared bool whose VALUE key is not
\* exported, and returned (false, true).
C5_Witness ==
    /\ got.op = "Get"
    /\ got.kind = "Bool"
    /\ ToLower(got.name) \in Listed
    /\ DescOf(ToLower(got.name)) = sBool
    /\ ~Exported(ValueKey(ToLower(got.name), NilIndex, NilIndex))
    /\ got.val = BoolV(FALSE)
    /\ got.ok

(* C6: the flag of a scalar accessor is true only when the name is declared *)
(* as a scalar of its base and its VALUE key was exported.                  *)
C6_FlagMeansSet ==
    (phase = "returned" /\ got.op = "Get" /\ got.ok) =>
        /\ ToLower(got.name) \in Listed
        /\ Exported(ValueKey(ToLower(got.name), NilIndex, NilIndex))

-----------------------------------------------------------------------------
(* What a Fill call was asked to do, read off the struct type it was given. *)

\* The accessor family of a leaf type.
KindOfType(t) ==
    CASE t.k = "string" -> "String"
      [] t.k = "bool" -> "Bool"
      [] t.k = "int" -> "Int"
      [] OTHER -> "Float"

IsEmbedded(t) == t.k = "struct" \/ (t.k = "ptr" /\ t.elem.k = "struct")

\* The name override of a field's tag (empty when it has none), and whether
\* the field is one Fill has to leave alone.
Override(field) == IF field.hasTag THEN ParseTag(field.tag).name ELSE <<>>
Skipped(field) == ~CanSet(field) \/ Override(field) = sDash

\* The name a field is to be bound under: the override when there is one,
\* else the name derived from the identifier.
NameFor(field) ==
    IF Override(field) # <<>> THEN SanitizeArgName(Override(field), "_")
    ELSE SanitizeArgName(toParamName(field.Name), "_")

\* The names Fill is to look up in the store for a struct type, in order.
RECURSIVE NamesFor(_, _, _)
NamesFor(structType, prefix, i) ==
    IF i > Len(structType.fields) THEN <<>>
    ELSE LET field == structType.fields[i]
             here == IF Skipped(field) THEN <<>>
                     ELSE IF field.Type.k = "struct"
                     THEN NamesFor(field.Type, prefix \o NameFor(field) \o <<"_">>, 1)
                     ELSE IF field.Type.k = "ptr" /\ field.Type.elem.k = "struct"
                     THEN NamesFor(field.Type.elem, prefix \o NameFor(field) \o <<"_">>, 1)
                     ELSE <<prefix \o NameFor(field)>>
         IN here \o NamesFor(structType, prefix, i + 1)

\* Every field of a struct type, embedded ones included.
RECURSIVE FieldsOf(_)
FieldsOf(structType) ==
    UNION {{structType.fields[i]} \cup
           (IF structType.fields[i].Type.k = "struct"
            THEN FieldsOf(structType.fields[i].Type)
            ELSE IF IsEmbedded(structType.fields[i].Type)
            THEN FieldsOf(structType.fields[i].Type.elem)
            ELSE {}) : i \in 1..Len(structType.fields)}

IsPrefix(s, t) == Len(s) <= Len(t) /\ SubSeq(t, 1, Len(s)) = s

\* The innermost error of an error chain.
RECURSIVE RootMsg(_)
RootMsg(e) ==
    IF "wrapped" \in DOMAIN e THEN RootMsg(e.wrapped)
    ELSE IF e.type = "error" THEN e.msg
    ELSE e.type

\* Fill looked up the names it was to look up: all of them when it
\* succeeded, and the first ones, up to the one it failed on, when it failed
\* (which it may only do on a name it looked up).
LookedUpAsNamed ==
    /\ IsPrefix(fill.looked, NamesFor(fill.type, <<>>, 1))
    /\ fill.err = NoError => fill.looked = NamesFor(fill.type, <<>>, 1)
    /\ fill.err # NoError =>
          /\ fill.looked # <<>>
          /\ RootMsg(fill.err) # "missing argument name"

\* The terminal fields Fill bound in the struct at (addr, path), each with
\* the place it lives at and the name Fill resolved for it.
RECURSIVE Bound(_, _, _, _)
Bound(addr, path, structType, prefix) ==
    UNION {LET field == structType.fields[i]
               name == prefix \o SanitizeArgName(fieldArgName(field), "_")
               at == Load(heap, addr, Append(path, i))
           IN IF ~CanSet(field) \/ (field.hasTag /\ field.tag = sDash) THEN {}
              ELSE IF field.Type.k = "struct"
              THEN Bound(addr, Append(path, i), field.Type, name \o <<"_">>)
              ELSE IF IsEmbedded(field.Type)
              THEN Bound(at.addr, PathOf(at), field.Type.elem, name \o <<"_">>)
              ELSE {[val |-> at, type |-> field.Type, name |-> name]} :
           i \in 1..Len(structType.fields)}

\* The declared size of a listed sequence or group.
SizeOf(name) == parseTypeInfo(DescOf(name)).typeInfo.sliceSize

\* A leaf slot of type t holds what key exports: the converted value when
\* the key is exported; nil for a pointer type and the zero value otherwise
\* when it is not.
SlotHolds(v, t, key) ==
    IF t.k = "ptr"
    THEN IF Exported(key)
         THEN ~v.nil /\ heap[v.addr] = ValueAt(key, KindOfType(t.elem))
         ELSE v = NilPtr
    ELSE v = ValueAt(key, KindOfType(t))

\* A slice is a container Fill created: it is not nil and its array was
\* allocated after the struct the caller passed.
Fresh(v) == ~v.nil /\ v.arr > fill.addr

\* A bound terminal field holds the data of the store.
FieldHolds(b) ==
    IF b.type.k = "slice" /\ b.type.elem.k = "slice"
    THEN /\ Fresh(b.val)
         /\ Len(Elems(heap, b.val)) = SizeOf(b.name)
         /\ \A i \in 0..(SizeOf(b.name) - 1) :
               /\ Fresh(Elems(heap, b.val)[i + 1])
               /\ Len(Elems(heap, Elems(heap, b.val)[i + 1])) = SizeAt(b.name, i)
               /\ \A j \in 0..(SizeAt(b.name, i) - 1) :
                     SlotHolds(Elems(heap, Elems(heap, b.val)[i + 1])[j + 1],
                               b.type.elem.elem, ValueKey(b.name, Index(i), Index(j)))
    ELSE IF b.type.k = "slice"
    THEN /\ Fresh(b.val)
         /\ Len(Elems(heap, b.val)) = SizeOf(b.name)
         /\ \A i \in 0..(SizeOf(b.name) - 1) :
               SlotHolds(Elems(heap, b.val)[i + 1], b.type.elem,
                         ValueKey(b.name, Index(i), NilIndex))
    ELSE SlotHolds(b.val, b.type, ValueKey(b.name, NilIndex, NilIndex))

-----------------------------------------------------------------------------
(* C7: when Fill has returned successfully (and before the caller writes to *)
(* the struct) every bound terminal field holds the data of the store,      *)
(* whatever it held before.  A scalar field holds the value when it is     *)
(* set, else nil when the field is a pointer and the zero value when it is  *)
(* not; a sequence or group field holds a container Fill created, with the  *)
(* outer and inner lengths the store declares, each leaf slot following     *)
(* the rule of the scalar field.                                            *)
C7_FillCopiesStore ==
    (fill.op = "Fill" /\ fill.err = NoError /\ ~fill.wrote) =>
        \A b \in Bound(fill.addr, <<>>, fill.type, <<>>) : FieldHolds(b)

\* Reached: a []*int field the caller had set to a slice of one element was
\* filled from a sequence of declared size MaxSize whose first slot is unset
\* and whose last slot is set.
C7_Witness ==
    /\ fill.op = "Fill"
    /\ fill.err = NoError
    /\ fill.set
    /\ fill.type = Cfg(fA(TSlice(TPtr(TInt))))
    /\ DescOf(nA) = Desc2(sInt, MaxSize)
    /\ ~Exported(ValueKey(nA, Index(0), NilIndex))
    /\ Exported(ValueKey(nA, Index(MaxSize - 1), NilIndex))
    /\ Len(Elems(heap, fill.before.f[1])) = 1
    /\ Len(Elems(heap, heap[fill.addr].f[1])) = MaxSize
    /\ Elems(heap, heap[fill.addr].f[1])[1] = NilPtr

(* C11: through nested aggregate fields the name Fill looks up for a        *)
(* terminal field is n1_n2_..._nk_leaf, each n the sanitized name override  *)
(* or identifier-derived name of a field on the way, joined by one '_'; the *)
(* root struct's own name adds no prefix.                                   *)
C11_NestedPrefix ==
    (/\ fill.op = "Fill"
     /\ \E i \in 1..Len(fill.type.fields) :
           IsEmbedded(fill.type.fields[i].Type) /\ ~Skipped(fill.type.fields[i]))
    => LookedUpAsNamed

\* The shape and the leaf kind of a field type, the pointer around the leaf
\* left aside.
ShapeOfType(t) ==
    IF t.k = "slice" /\ t.elem.k = "slice" THEN "group"
    ELSE IF t.k = "slice" THEN "sequence"
    ELSE "scalar"
LeafOfType(t) ==
    LET e == IF ShapeOfType(t) = "group" THEN t.elem.elem
             ELSE IF ShapeOfType(t) = "sequence" THEN t.elem
             ELSE t
    IN IF e.k = "ptr" THEN e.elem.k ELSE e.k

\* The slash-separated segments of a declared name's descriptor: their
\* number gives the declared shape, the first one the declared base (an
\* unknown base counting as str).
Slashes(d) == Cardinality({i \in 1..Len(d) : d[i] = "/"})
DeclaredShape(name) ==
    CASE Slashes(DescOf(name)) = 0 -> "scalar"
      [] Slashes(DescOf(name)) = 1 -> "sequence"
      [] OTHER -> "group"
FirstSegment(d) ==
    SubSeq(d, 1, (CHOOSE i \in 1..(Len(d) + 1) :
                     /\ i = Len(d) + 1 \/ d[i] = "/"
                     /\ \A j \in 1..(i - 1) : d[j] # "/") - 1)
DeclaredBase(name) ==
    IF FirstSegment(DescOf(name)) \in {sBool, sInt, sFloat}
    THEN FirstSegment(DescOf(name)) ELSE sStr
BaseOfLeaf(k) ==
    CASE k = "string" -> sStr
      [] k = "bool" -> sBool
      [] k = "int" -> sInt
      [] k = "float64" -> sFloat
      [] OTHER -> <<>>

\* A field type fits what the environment declares for a name.
Fits(t, name) ==
    /\ BaseOfLeaf(LeafOfType(t)) = DeclaredBase(name)
    /\ ShapeOfType(t) = DeclaredShape(name)

\* The top-level terminal fields of the filled struct that are bound to a
\* declared name, by index.
TerminalsDeclared ==
    {i \in 1..Len(fill.type.fields) :
        /\ CanSet(fill.type.fields[i])
        /\ ~(fill.type.fields[i].hasTag /\ fill.type.fields[i].tag = sDash)
        /\ ~IsEmbedded(fill.type.fields[i].Type)
        /\ SanitizeArgName(fieldArgName(fill.type.fields[i]), "_") \in Listed}

(* C12: Fill writes a terminal field only when the field's leaf kind is the *)
(* declared base and the field's shape is the declared shape; with any      *)
(* other combination Fill returns an error and the field keeps its value.   *)
C12_ShapeAndKindMustFit ==
    fill.op = "Fill" =>
        \A i \in TerminalsDeclared :
            ~Fits(fill.type.fields[i].Type,
                  SanitizeArgName(fieldArgName(fill.type.fields[i]), "_"))
            => /\ fill.err # NoError
               /\ heap[fill.addr].f[i] = fill.before.f[i]

\* Reached: a []string field the caller had set was offered a group-declared
\* argument; Fill failed and the field holds the slice it held.
C12_Witness ==
    /\ fill.op = "Fill"
    /\ fill.set
    /\ fill.type = Cfg(fA(TSlice(TString)))
    /\ DescOf(nA) = Desc3(sStr, 0, GroupFormality)
    /\ fill.err # NoError
    /\ RootMsg(fill.err) = "field is not for grouped occurrences but argument is"
    /\ ~heap[fill.addr].f[1].nil
    /\ heap[fill.addr].f[1] = fill.before.f[1]

\* The string values the environment exports for the slots of a sequence
\* of n slots, the keys made by key(i).
SlotValues(n, key(_)) == [i \in 1..n |-> ValueAt(key(i - 1), "String")]

\* What the string accessor of the declared shape returns for a name.
ReadAsString(name) ==
    CASE DeclaredShape(name) = "scalar" ->
           /\ GetString(args, heap, name).ok
           /\ GetString(args, heap, name).val =
                 ValueAt(ValueKey(name, NilIndex, NilIndex), "String")
      [] DeclaredShape(name) = "sequence" ->
           /\ GetStringSlice(args, heap, name).ok
           /\ GetStringSlice(args, heap, name).val.elems =
                 SlotValues(SizeOf(name), LAMBDA i : ValueKey(name, Index(i), NilIndex))
      [] OTHER ->
           /\ GetStringGroups(args, heap, name).ok
           /\ Len(GetStringGroups(args, heap, name).val.elems) = SizeOf(name)
           /\ \A i \in 0..(SizeOf(name) - 1) :
                 GetStringGroups(args, heap, name).val.elems[i + 1].elems =
                    SlotValues(SizeAt(name, i),
                               LAMBDA j : ValueKey(name, Index(i), Index(j)))

\* The names declared with a base other than str, bool, int and float.
UnknownBased ==
    {n \in Listed : FirstSegment(DescOf(n)) \notin {sStr, sBool, sInt, sFloat}}

\* Fill was called on a struct whose only field is a string-kinded field of
\* the declared shape of the name it is bound to.
FilledStringFieldFor(name) ==
    /\ fill.op = "Fill"
    /\ Len(fill.type.fields) = 1
    /\ TerminalsDeclared = {1}
    /\ SanitizeArgName(fieldArgName(fill.type.fields[1]), "_") = name
    /\ LeafOfType(fill.type.fields[1].Type) = "string"
    /\ ShapeOfType(fill.type.fields[1].Type) = DeclaredShape(name)

(* C13: an argument whose descriptor has a base other than str, bool, int   *)
(* and float is a String argument throughout: the store holds its raw       *)
(* values unconverted, the string accessor of its shape returns them, and   *)
(* Fill binds a string-kinded field of its shape to it and copies them.     *)
C13_UnknownBaseIsString ==
    HaveArgs =>
        \A n \in UnknownBased :
            /\ ReadAsString(n)
            /\ FilledStringFieldFor(n) =>
                  /\ fill.err = NoError
                  /\ \A b \in Bound(fill.addr, <<>>, fill.type, <<>>) : FieldHolds(b)

\* The top-level terminal fields of the filled struct that Fill does not
\* skip and whose name is not declared, by index.
TerminalsUndeclared ==
    {i \in 1..Len(fill.type.fields) :
        /\ CanSet(fill.type.fields[i])
        /\ ~(fill.type.fields[i].hasTag /\ fill.type.fields[i].tag = sDash)
        /\ ~IsEmbedded(fill.type.fields[i].Type)
        /\ SanitizeArgName(fieldArgName(fill.type.fields[i]), "_") \notin Listed}

(* C14: Fill returns an error whenever a terminal field it does not skip    *)
(* resolves to a name that is not declared, also when the field is a        *)
(* pointer: no nil or zero value is substituted and the field is not        *)
(* written.                                                                 *)
C14_UndeclaredIsAnError ==
    fill.op = "Fill" =>
        /\ \A i \in TerminalsUndeclared :
              /\ fill.err # NoError
              /\ heap[fill.addr].f[i] = fill.before.f[i]
        /\ fill.err = NoError =>
              \A b \in Bound(fill.addr, <<>>, fill.type, <<>>) : b.name \in Listed

\* Reached: a struct whose second field, a *string the caller had set, is
\* bound to the undeclared name c; Fill wrote the first field, failed on
\* the second and left its pointer as it was.
C14_Witness ==
    /\ fill.op = "Fill"
    /\ fill.set
    /\ fill.type = TStruct("Cfg2", <<fB(TString),
                                     StructField(<<"C">>, TPtr(TString), FALSE, <<>>)>>)
    /\ Exported(ValueKey(nB, NilIndex, NilIndex))
    /\ fill.looked = <<nB, <<"c">>>>
    /\ RootMsg(fill.err) = "parameter not found"
    /\ heap[fill.addr].f[1] # fill.before.f[1]
    /\ ~heap[fill.addr].f[2].nil
    /\ heap[fill.addr].f[2] = fill.before.f[2]

\* The position of the k-th slash of a string: 0 for k = 0, and one past
\* the end when the string has fewer slashes.
NthSlash(d, k) ==
    CHOOSE i \in 0..(Len(d) + 1) :
        \/ k = 0 /\ i = 0
        \/ k > Slashes(d) /\ i = Len(d) + 1
        \/ /\ i \in 1..Len(d)
           /\ d[i] = "/"
           /\ Cardinality({j \in 1..i : d[j] = "/"}) = k
\* The k-th slash-separated segment of a string (k at most Slashes(d) + 1).
SegmentAt(d, k) == SubSeq(d, NthSlash(d, k - 1) + 1, NthSlash(d, k) - 1)

\* A text that reads as a decimal integer, and the integer it reads as.
Unsigned(t) == IF Len(t) > 0 /\ t[1] \in {"+", "-"} THEN Tail(t) ELSE t
IsIntegerText(t) ==
    /\ Len(Unsigned(t)) > 0
    /\ \A i \in 1..Len(Unsigned(t)) : Unsigned(t)[i] \in Range(DigitChars)
IntegerOf(t) ==
    IF t[1] = "-" THEN 0 - DigitsValue(Unsigned(t)) ELSE DigitsValue(Unsigned(t))

\* A descriptor string of one to three segments whose second and third
\* segments read as integers.
ValidDescriptor(d) ==
    /\ Slashes(d) <= 2
    /\ \A k \in 2..(Slashes(d) + 1) : IsIntegerText(SegmentAt(d, k))

(* C15: parseTypeInfo succeeds exactly on the strings of one, two or three  *)
(* slash-separated segments whose second and third segments read as         *)
(* integers.  Then the base is the first segment verbatim, the shape is     *)
(* scalar, sequence or group for one, two or three segments, and the size   *)
(* is the integer of the second segment (0 for a scalar).  On every other   *)
(* string it fails with InvalidTypeStringError.                             *)
C15_TypeGrammar ==
    got.op = "parseTypeInfo" =>
        IF ValidDescriptor(got.typeStr)
        THEN /\ got.err = NoError
             /\ got.typeInfo.baseType = SegmentAt(got.typeStr, 1)
             /\ got.typeInfo.isSlice <=> Slashes(got.typeStr) >= 1
             /\ got.typeInfo.isGroup <=> Slashes(got.typeStr) = 2
             /\ got.typeInfo.sliceSize =
                   IF Slashes(got.typeStr) = 0 THEN 0
                   ELSE IntegerOf(SegmentAt(got.typeStr, 2))
        ELSE /\ got.err = InvalidTypeStringError(got.typeStr)
             /\ got.typeInfo = NilTypeInfo

\* Reached: the three-segment descriptor str/10/2 was parsed as a group of
\* base str and size 10.
C15_Witness ==
    /\ got.op = "parseTypeInfo"
    /\ got.typeStr = <<"s","t","r","/","1","0","/","2">>
    /\ got.err = NoError
    /\ got.typeInfo.baseType = sStr
    /\ got.typeInfo.isGroup
    /\ got.typeInfo.sliceSize = 10

\* The type keys ParseArgs has read whose descriptor is well formed and
\* declares a negative size.
NegativeSized ==
    {k \in Range(reads) \cap DOMAIN env :
        /\ \E n \in Listed :
              k \in {TypeKey(n, NilIndex)} \cup {TypeKey(n, Index(i)) : i \in 0..MaxOuter}
        /\ ValidDescriptor(env[k])
        /\ Slashes(env[k]) >= 1
        /\ \E j \in 2..(Slashes(env[k]) + 1) : IntegerOf(SegmentAt(env[k], j)) < 0}

(* C16: every descriptor the parser accepts has a non-negative size: one    *)
(* with a negative size segment, top-level or per-index, is rejected with   *)
(* InvalidTypeStringError, so the sizes handleSliceValue and                *)
(* handleGroupValue allocate with are never negative and ParseArgs returns. *)
C16_SizesNonNegative ==
    /\ phase # "panicked"
    /\ \A k \in NegativeSized : err = InvalidTypeStringError(env[k])

-----------------------------------------------------------------------------
(* What decoding a declared name has to come to, read off the environment:  *)
(* the keys are visited in the order the protocol gives them.               *)

Min(S) == CHOOSE x \in S : \A y \in S : x <= y

Decodes == [kind |-> "ok"]
Fails(e) == [kind |-> "err", err |-> e]
Panics == [kind |-> "panic"]

\* A raw value is one the base accepts, and the error it gives when not.
Acceptable(base, raw) ==
    CASE base = sBool -> ToLower(raw) \in {sTrue, sFalse}
      [] base = sInt -> IsIntegerText(raw)
      [] base = sFloat -> ParseFloat(raw).ok
      [] OTHER -> TRUE
Rejection(base, raw) ==
    CASE base = sBool -> InvalidBooleanValueError(raw)
      [] base = sInt -> InvalidIntegerValueError(raw)
      [] OTHER -> InvalidFloatValueError(raw)

\* The declared size of a well-formed descriptor.
DeclaredSize(d) == IF Slashes(d) = 0 THEN 0 ELSE IntegerOf(SegmentAt(d, 2))

\* The slots under keys, in order: the first exported value the base does
\* not accept is the failure.
SlotsOutcome(base, keys) ==
    LET bad == {p \in 1..Len(keys) :
                   Exported(keys[p]) /\ ~Acceptable(base, env[keys[p]])}
    IN IF bad = {} THEN Decodes ELSE Fails(Rejection(base, env[keys[Min(bad)]]))

\* Outer index i of a group: its descriptor is mandatory.
IndexOutcome(n, base, i) ==
    LET key == TypeKey(n, Index(i))
    IN IF ~Exported(key) THEN Fails(ArgTypeMissingError(n, Index(i)))
       ELSE IF ~ValidDescriptor(env[key]) THEN Fails(InvalidTypeStringError(env[key]))
       ELSE IF DeclaredSize(env[key]) < 0 THEN Panics
       ELSE SlotsOutcome(base, [j \in 1..DeclaredSize(env[key]) |->
                                   ValueKey(n, Index(i), Index(j - 1))])

GroupOutcome(n, base, size) ==
    LET each == [i \in 0..(size - 1) |-> IndexOutcome(n, base, i)]
        bad == {i \in 0..(size - 1) : each[i] # Decodes}
    IN IF bad = {} THEN Decodes ELSE each[Min(bad)]

Outcome(n) ==
    LET key == TypeKey(n, NilIndex)
    IN IF ~Exported(key) THEN Fails(ArgTypeMissingError(n, NilIndex))
       ELSE IF ~ValidDescriptor(env[key]) THEN Fails(InvalidTypeStringError(env[key]))
       ELSE IF Slashes(env[key]) = 0
       THEN SlotsOutcome(DeclaredBase(n), <<ValueKey(n, NilIndex, NilIndex)>>)
       ELSE IF DeclaredSize(env[key]) < 0 THEN Panics
       ELSE IF Slashes(env[key]) = 1
       THEN SlotsOutcome(DeclaredBase(n), [i \in 1..DeclaredSize(env[key]) |->
                                              ValueKey(n, Index(i - 1), NilIndex)])
       ELSE GroupOutcome(n, DeclaredBase(n), DeclaredSize(env[key]))

\* The declared names in the order of the list, and the position of the
\* first one whose decoding does not succeed (0 when all succeed).
ListOrder == IF Exported(ListKey) THEN LowerAll(Fields(env[ListKey])) ELSE <<>>
Outcomes == [p \in 1..Len(ListOrder) |-> Outcome(ListOrder[p])]
FirstFailingOf(outcomes) ==
    IF \A p \in DOMAIN outcomes : outcomes[p] = Decodes THEN 0
    ELSE Min({p \in DOMAIN outcomes : outcomes[p] # Decodes})
FirstFailing == FirstFailingOf(Outcomes)

\* ParseArgs has just run on a list, and the decode stage succeeded or failed.
Ran == got = NoCall /\ phase # "init" /\ Exported(ListKey)
DecodeSucceeded == phase = "returned" /\ err.type \in {"nil", "error"}

\* The type keys of a declared name.
TypeKeysOf(n) == {TypeKey(n, NilIndex)} \cup {TypeKey(n, Index(i)) : i \in 0..MaxOuter}

\* The store's maps for a base.
SinglesOfBase(base) ==
    CASE base = sBool -> args.bools
      [] base = sInt -> args.ints
      [] base = sFloat -> args.floats
      [] OTHER -> args.strings
SlicesOfBase(base) ==
    CASE base = sBool -> args.boolSlices
      [] base = sInt -> args.intSlices
      [] base = sFloat -> args.floatSlices
      [] OTHER -> args.stringSlices
GroupsOfBase(base) ==
    CASE base = sBool -> args.boolGroups
      [] base = sInt -> args.intGroups
      [] base = sFloat -> args.floatGroups
      [] OTHER -> args.stringGroups

\* The slots a declared name has, each by its index and group index.
SlotsOf(n) ==
    IF DeclaredShape(n) = "scalar" THEN {[index |-> NilIndex, group |-> NilIndex]}
    ELSE IF DeclaredShape(n) = "sequence"
    THEN {[index |-> Index(i), group |-> NilIndex] :
             i \in 0..(DeclaredSize(DescOf(n)) - 1)}
    ELSE UNION {{[index |-> Index(i), group |-> Index(j)] :
                   j \in 0..(DeclaredSize(env[TypeKey(n, Index(i))]) - 1)} :
                i \in 0..(DeclaredSize(DescOf(n)) - 1)}

\* The pointer the store holds for a slot of a declared name of a base.
StoredSlot(n, base, slot) ==
    IF slot.index = NilIndex THEN SinglesOfBase(base)[n]
    ELSE IF slot.group = NilIndex
    THEN Elems(heap, SlicesOfBase(base)[n])[slot.index[1] + 1]
    ELSE Elems(heap, Elems(heap, GroupsOfBase(base)[n])[slot.index[1] + 1])
            [slot.group[1] + 1]

\* A slot without a value key is a nil pointer in the store, and one with a
\* value key points to what its raw text converts to.
Converted(base, raw) ==
    CASE base = sBool -> BoolV(ToLower(raw) = sTrue)
      [] base = sInt -> IntV(IntegerOf(raw))
      [] base = sFloat -> FloatV(ParseFloat(raw).val)
      [] OTHER -> StrV(raw)
SlotAsExported(ptr, key, base) ==
    IF Exported(key)
    THEN /\ Acceptable(base, env[key])
         /\ ptr # NilPtr
         /\ heap[ptr.addr] = Converted(base, env[key])
    ELSE ptr = NilPtr

\* Every slot of the returned store is as exported.
StoreAsExported ==
    \A n \in Listed : \A base \in {DeclaredBase(n)} : \A slot \in SlotsOf(n) :
        SlotAsExported(StoredSlot(n, base, slot),
                       ValueKey(n, slot.index, slot.group), base)

\* Every slot of the returned store without a value key is a nil pointer.
AbsentUnset ==
    \A n \in Listed : \A base \in {DeclaredBase(n)} : \A slot \in SlotsOf(n) :
        ~Exported(ValueKey(n, slot.index, slot.group))
        => StoredSlot(n, base, slot) = NilPtr

(* C17: type keys are mandatory and value keys optional.  When a declared   *)
(* name has no TYPE key, or a group has no TYPE_<i> key for an index below  *)
(* its outer size, ParseArgs fails, and with ArgTypeMissingError naming     *)
(* that key when this is the first thing to go wrong; the absence of a      *)
(* VALUE key is never an error and leaves the slot unset.                   *)
C17_TypeKeysMandatory ==
    Ran =>
        \A outcomes \in {Outcomes} : \A first \in {FirstFailingOf(outcomes)} :
           /\ (\E p \in DOMAIN outcomes :
                  /\ outcomes[p].kind = "err"
                  /\ outcomes[p].err.type = "ArgTypeMissingError")
                 => ~DecodeSucceeded
           /\ (/\ first # 0
               /\ outcomes[first].kind = "err"
               /\ outcomes[first].err.type = "ArgTypeMissingError")
              => /\ phase = "returned"
                 /\ err = outcomes[first].err
                 /\ err.name = ListOrder[first]
                 /\ ~Exported(TypeKey(err.name, err.index))
                 /\ reads[Len(reads)] = TypeKey(err.name, err.index)
           /\ first = 0 =>
                 /\ DecodeSucceeded
                 /\ HaveArgs => AbsentUnset

\* Read without regard to order, C17 does not hold: every declared name
\* without its TYPE key would have ParseArgs fail naming that very key.
C17_EveryMissingTypeNamed ==
    Ran => \A n \in Listed :
              ~Exported(TypeKey(n, NilIndex)) => err = ArgTypeMissingError(n, NilIndex)

\* Reached: a group of outer size MaxOuter whose index 0 has its descriptor
\* and no value, and whose last index has no descriptor: ParseArgs failed
\* naming the TYPE key of the last index.
C17_Witness ==
    /\ Ran
    /\ ListOrder = <<nA>>
    /\ Exported(TypeKey(nA, NilIndex))
    /\ DescOf(nA) = Desc3(sStr, MaxOuter, GroupFormality)
    /\ Exported(TypeKey(nA, Index(0)))
    /\ DeclaredSize(env[TypeKey(nA, Index(0))]) = MaxInner
    /\ ~Exported(ValueKey(nA, Index(0), Index(0)))
    /\ ~Exported(TypeKey(nA, Index(MaxOuter - 1)))
    /\ err = ArgTypeMissingError(nA, Index(MaxOuter - 1))
    /\ args.nil

\* A key is a value key of the name: OMNI_ARG_<NAME>_VALUE and its indexes.
IsValueKeyOf(key, n) ==
    /\ Len(key) >= Len(ValueKey(n, NilIndex, NilIndex))
    /\ SubSeq(key, 1, Len(ValueKey(n, NilIndex, NilIndex))) = ValueKey(n, NilIndex, NilIndex)

ConversionErrors ==
    {"InvalidBooleanValueError", "InvalidIntegerValueError", "InvalidFloatValueError"}

(* C18: a present raw value of a bool argument is stored as true iff its    *)
(* lower-cased text is "true" and as false iff it is "false"; a present     *)
(* value that its base does not accept, in a scalar, sequence or group      *)
(* slot, and reached by the decoding, makes ParseArgs fail with the         *)
(* conversion error of the base holding that raw value; an absent value is  *)
(* never converted: its slot is a nil pointer.                              *)
C18_Conversions ==
    Ran =>
        /\ HaveArgs => StoreAsExported
        /\ \A p \in 1..Len(reads) : \A n \in Listed :
              (/\ IsValueKeyOf(reads[p], n)
               /\ Exported(reads[p])
               /\ ~Acceptable(DeclaredBase(n), env[reads[p]]))
              => /\ p = Len(reads)
                 /\ phase = "returned"
                 /\ args.nil
                 /\ err = Rejection(DeclaredBase(n), env[reads[p]])
        /\ err.type \in ConversionErrors =>
              \A outcomes \in {Outcomes} : \A first \in {FirstFailingOf(outcomes)} :
                 /\ first # 0
                 /\ err = outcomes[first].err
                 /\ Exported(reads[Len(reads)])
                 /\ err.raw = env[reads[Len(reads)]]

\* Read without regard to order, C18 does not hold: every present value its
\* base does not accept would be the one ParseArgs fails with.
C18_EveryBadValueNamed ==
    Ran => \A n \in Listed :
              (/\ Exported(TypeKey(n, NilIndex))
               /\ DescOf(n) = sBool
               /\ Exported(ValueKey(n, NilIndex, NilIndex))
               /\ ToLower(env[ValueKey(n, NilIndex, NilIndex)]) \notin {sTrue, sFalse})
              => err = InvalidBooleanValueError(env[ValueKey(n, NilIndex, NilIndex)])

\* Reached: a bool group decoded with "FalsE" stored as false under index 0.
C18_WitnessFalse ==
    /\ HaveArgs
    /\ ListOrder = <<nA>>
    /\ DeclaredBase(nA) = sBool
    /\ DeclaredShape(nA) = "group"
    /\ Exported(ValueKey(nA, Index(0), Index(0)))
    /\ env[ValueKey(nA, Index(0), Index(0))] = <<"F","a","l","s","E">>
    /\ heap[StoredSlot(nA, sBool, [index |-> Index(0), group |-> Index(0)]).addr]
         = BoolV(FALSE)

\* Reached: a bool sequence whose slot 0 holds "TrUe" and whose last slot
\* holds "no": ParseArgs failed with the error of "no".
C18_Witness ==
    /\ Ran
    /\ Exported(TypeKey(nA, NilIndex))
    /\ DescOf(nA) = Desc2(sBool, MaxSize)
    /\ Exported(ValueKey(nA, Index(0), NilIndex))
    /\ env[ValueKey(nA, Index(0), NilIndex)] = <<"T","r","U","e">>
    /\ Exported(ValueKey(nA, Index(MaxSize - 1), NilIndex))
    /\ env[ValueKey(nA, Index(MaxSize - 1), NilIndex)] = <<"n","o">>
    /\ err = InvalidBooleanValueError(<<"n","o">>)
    /\ args.nil

\* A key belongs to the name: it starts with OMNI_ARG_<NAME>_.
KeyPrefix(n) == Join(<<sOMNI_ARG, ToUpper(n), <<>>>>, <<"_">>)
StartsWith(key, prefix) ==
    Len(key) >= Len(prefix) /\ SubSeq(key, 1, Len(prefix)) = prefix
IsKeyOf(key, n) == StartsWith(key, KeyPrefix(n))

\* The first and the last place in the list of the names a key belongs to
\* (0 when it belongs to none).
Max(S) == CHOOSE x \in S : \A y \in S : x >= y
PlacesOf(key) == {i \in 1..Len(ListOrder) : IsKeyOf(key, ListOrder[i])}
FirstPlace(places) == IF places = {} THEN 0 ELSE Min(places)
LastPlace(places) == IF places = {} THEN 0 ELSE Max(places)
Places == [p \in 1..Len(reads) |-> PlacesOf(reads[p])]

(* C19: the first failure wins.  The names are decoded in the order of the  *)
(* list and decoding stops at the first name that fails: ParseArgs returns  *)
(* the error of the earliest failing name alone, no key of a name that      *)
(* comes only later in the list is read, and a decode error comes before    *)
(* any Fill error: the targets then hold what they held before the call.    *)
C19_FirstFailureWins ==
    Ran =>
        \A outcomes \in {Outcomes} : \A first \in {FirstFailingOf(outcomes)} :
        \A last \in {IF first = 0 THEN Len(ListOrder) ELSE first} :
        \A places \in {Places} :
           /\ reads[1] = ListKey
           /\ \A i \in 1..last : \E p \in 2..Len(reads) : i \in places[p]
           /\ \A p \in 2..Len(reads) : places[p] # {} /\ FirstPlace(places[p]) <= last
           /\ \A p \in 2..(Len(reads) - 1) :
                 FirstPlace(places[p]) <= LastPlace(places[p + 1])
           /\ (first # 0 /\ outcomes[first].kind = "err") =>
                 /\ phase = "returned"
                 /\ args.nil
                 /\ err = outcomes[first].err
                 /\ \A k \in 1..Len(targets) :
                       targets[k].type.k = "ptr" => Holds(targets[k]) = targets[k].before
           /\ (phase = "returned" /\ err.type = "error") => first = 0

\* Reached: a fails to convert, b, listed after it, has no descriptor, and
\* the target set by the caller could not be filled from a either: ParseArgs
\* returned a's error, read no key of b and left the targets alone.
C19_Witness ==
    /\ Ran
    /\ ListOrder = <<nA, nB>>
    /\ Exported(TypeKey(nA, NilIndex))
    /\ DescOf(nA) = sInt
    /\ Exported(ValueKey(nA, NilIndex, NilIndex))
    /\ ~Exported(TypeKey(nB, NilIndex))
    /\ err = InvalidIntegerValueError(env[ValueKey(nA, NilIndex, NilIndex)])
    /\ Len(targets) = 2
    /\ Holds(targets[1]) = SetByCaller
    /\ \A p \in 1..Len(reads) : ~IsKeyOf(reads[p], nB)

(* C20: after a successful ParseArgs, the map GetAllArgs returns has one     *)
(* entry for every declared name, whatever its shape and whether or not a   *)
(* value was set, and a name with a set scalar value maps to that value.    *)
C20_SnapshotHasEveryName ==
    (HaveArgs /\ got # NoCall /\ got.op = "GetAllArgs") =>
        /\ DOMAIN got.val = Listed
        /\ \A n \in Listed :
              (DeclaredShape(n) = "scalar" /\ Exported(ValueKey(n, NilIndex, NilIndex)))
              => got.val[n] = Converted(DeclaredBase(n),
                                        env[ValueKey(n, NilIndex, NilIndex)])

\* What an accessor of a base has to return for the slot under key.
ZeroOfBase(base) ==
    CASE base = sBool -> ZeroBool
      [] base = sInt -> ZeroInt
      [] base = sFloat -> ZeroFloat
      [] OTHER -> ZeroString
Expected(base, key) ==
    IF Exported(key) THEN Converted(base, env[key]) ELSE ZeroOfBase(base)
GetOfBase(base, n) ==
    CASE base = sBool -> GetBool(args, heap, n)
      [] base = sInt -> GetInt(args, heap, n)
      [] base = sFloat -> GetFloat(args, heap, n)
      [] OTHER -> GetString(args, heap, n)
GetSliceOfBase(base, n) ==
    CASE base = sBool -> GetBoolSlice(args, heap, n)
      [] base = sInt -> GetIntSlice(args, heap, n)
      [] base = sFloat -> GetFloatSlice(args, heap, n)
      [] OTHER -> GetStringSlice(args, heap, n)

(* C21: once ParseArgs has returned a store, what its accessors return for  *)
(* a declared name is what the environment exported for it, and stays so    *)
(* after Fill and after the caller has written to the struct Fill filled,   *)
(* also through a pointer field or a pointer slot that Fill populated.      *)
C21_StoreNeverMutated ==
    HaveArgs =>
        /\ StoreAsExported
        /\ \A n \in Listed : \A base \in {DeclaredBase(n)} :
              /\ DeclaredShape(n) = "scalar" =>
                    GetOfBase(base, n) =
                        [val |-> Expected(base, ValueKey(n, NilIndex, NilIndex)),
                         ok |-> TRUE]
              /\ DeclaredShape(n) = "sequence" =>
                    GetSliceOfBase(base, n) =
                        [val |-> ValSlice([i \in 1..DeclaredSize(DescOf(n)) |->
                                    Expected(base, ValueKey(n, Index(i - 1), NilIndex))]),
                         ok |-> TRUE]

\* The pointer-to-struct fields Fill has to enter in the struct value val of
\* type t, found through structs held by value and through pointers to
\* structs: the pointer each holds now and, where the struct it sits in was
\* the caller's own (known), the pointer it held before Fill.
RECURSIVE EmbeddedPointers(_, _, _, _, _)
EmbeddedPointersOfField(h, field, now, known, before) ==
    IF Skipped(field) \/ ~IsEmbedded(field.Type) THEN {}
    ELSE IF field.Type.k = "struct"
    THEN EmbeddedPointers(h, field.Type, now, known, before)
    ELSE {[now |-> now, known |-> known, before |-> before]}
         \cup (IF now.nil THEN {}
               ELSE EmbeddedPointers(h, field.Type.elem, h[now.addr], FALSE, NilPtr))

EmbeddedPointers(h, t, val, known, before) ==
    UNION {EmbeddedPointersOfField(h, t.fields[i], val.f[i], known,
                                   IF known THEN before.f[i] ELSE before) :
             i \in 1..Len(t.fields)}

(* C23: when Fill has returned successfully, every pointer-to-struct field it
   had to enter, at any depth of the target, is non-nil: one the caller had
   set still holds the caller's pointer (the struct was filled in place), and
   one that was nil holds a struct allocated during the call. *)
C23_EmbeddedPointersSet ==
    (fill # NoCall /\ fill.op = "Fill" /\ fill.err = NoError) =>
        \A p \in EmbeddedPointers(heap, fill.type, heap[fill.addr], TRUE, fill.before) :
            /\ ~p.now.nil
            /\ fill.set => /\ p.now.addr < fill.addr
                           /\ p.known => p.now = p.before
            /\ ~fill.set => /\ p.now.addr > fill.addr
                            /\ p.known => p.before.nil

\* A nil pointer to a struct, itself holding a nil pointer to a struct, is
\* filled: both structs were allocated by the call.
C23_Witness ==
    /\ fill # NoCall
    /\ fill.op = "Fill"
    /\ fill.err = NoError
    /\ ~fill.set
    /\ fill.type = Cfg(fA(TPtr(Inner(fB(TPtr(TStruct("Empty", <<>>)))))))
    /\ fill.before.f[1].nil
    /\ ~heap[fill.addr].f[1].nil
    /\ ~heap[heap[fill.addr].f[1].addr].f[1].nil
    /\ heap[heap[fill.addr].f[1].addr].f[1].addr > heap[fill.addr].f[1].addr

\* A pointer to a struct the caller had set is kept and the struct it points
\* to is filled in place.
C23_WitnessInPlace ==
    /\ fill # NoCall
    /\ fill.op = "Fill"
    /\ fill.err = NoError
    /\ fill.set
    /\ fill.type = Cfg(fA(TPtr(Inner(fB(TString)))))
    /\ heap[fill.addr].f[1] = fill.before.f[1]
    /\ Exported(ValueKey(nAB, NilIndex, NilIndex))
    /\ heap[heap[fill.addr].f[1].addr].f[1] = StrV(env[ValueKey(nAB, NilIndex, NilIndex)])

\* What a value of type t holds, pointers and slices followed: a pointer into
\* the store (an address up to store) counts with its address, a pointer to
\* anything allocated later only with what it points to.
RECURSIVE Contents(_, _, _, _)
Contents(h, store, t, val) ==
    CASE t.k = "ptr" ->
           IF val.nil THEN <<"nil">>
           ELSE <<"ptr", IF val.addr <= store THEN val.addr ELSE 0,
                  Contents(h, store, t.elem, Load(h, val.addr, PathOf(val)))>>
      [] t.k = "slice" ->
           IF val.nil THEN <<"nil">>
           ELSE <<"slice", [i \in 1..Len(Elems(h, val)) |->
                              Contents(h, store, t.elem, Elems(h, val)[i])]>>
      [] t.k = "struct" ->
           <<"struct", [i \in 1..Len(t.fields) |->
                          Contents(h, store, t.fields[i].Type, val.f[i])]>>
      [] OTHER -> <<"leaf", val>>

\* Fill called on the struct of goroutine g in the heap h, from start to end.
FillOf(h, g) ==
    Fill([heap |-> h, reads |-> reads, looked |-> <<>>, depth |-> 0], args,
         Interface(TPtr(fill.gs[g].type), Ptr(fill.gs[g].addr)), <<>>)
\* The goroutines' calls made one after the other, first then second.
OneAfterTheOther(first, second) ==
    LET r1 == FillOf(fill.start, first)
        r2 == FillOf(r1.w.heap, second)
    IN [heap |-> r2.w.heap, err |-> (first :> r1.err) @@ (second :> r2.err)]

SameAs(seq) ==
    \A g \in Goroutines :
        /\ fill.gs[g].err = seq.err[g]
        /\ Contents(heap, fill.store, fill.gs[g].type, heap[fill.gs[g].addr])
             = Contents(seq.heap, fill.store, fill.gs[g].type, seq.heap[fill.gs[g].addr])

(* C22: when two goroutines have each called Fill on a struct of their own
   against the same store, in whatever order their loop iterations were
   scheduled, each struct holds what it holds, and each call returned what it
   returns, when the two calls are made one after the other (in either
   order); and no cell of the store has changed. *)
C22_InterleavedAsSequential ==
    (fill # NoCall /\ fill.op = "go") =>
        /\ \A a \in 1..fill.store : heap[a] = fill.start[a]
        /\ (\A g \in Goroutines : FillEnded(fill.gs[g])) =>
              /\ SameAs(OneAfterTheOther(1, 2))
              /\ SameAs(OneAfterTheOther(2, 1))

\* The iterations of the two calls alternated; the first call bound a value
\* field and a pointer field, the second allocated an embedded struct.
C22_Witness ==
    /\ fill # NoCall
    /\ fill.op = "go"
    /\ fill.order = <<1, 2, 1, 2>>
    /\ \A g \in Goroutines : FillEnded(fill.gs[g]) /\ fill.gs[g].err = NoError
    /\ fill.gs[1].type = TStruct("Cfg2", <<fA(TString), fB(TPtr(TString))>>)
    /\ fill.gs[2].type = TStruct("Cfg2", <<Tagged(<<"X">>, TPtr(Inner(fB(TString))), nA), fB(TString)>>)
    /\ ~fill.set
    /\ ~heap[fill.gs[1].addr].f[2].nil
    /\ heap[fill.gs[1].addr].f[2].addr <= fill.store
    /\ heap[fill.gs[2].addr].f[1].addr > fill.store

\* One call failed at its second field while the other went on.
C22_WitnessError ==
    /\ fill # NoCall
    /\ fill.op = "go"
    /\ fill.order = <<1, 2, 1, 2>>
    /\ fill.gs[1].err # NoError
    /\ fill.gs[2].err = NoError
    /\ FillEnded(fill.gs[2])

\* The characters of a text, decoded one after the other.
RECURSIVE RunesFrom(_, _)
RunesFrom(text, i) ==
    IF i > Len(text) THEN <<>>
    ELSE <<DecodeRune(text, i).r>> \o RunesFrom(text, i + DecodeRune(text, i).size)
Runes(text) == RunesFrom(text, 1)

\* The conversion as the rule states it, character by character: '_' goes
\* before an upper-case letter that is not the first character when the
\* character before it or the character after it is a lower-case letter.
UnderscoreBefore(chars, k) ==
    /\ RuneIsUpper(chars[k])
    /\ k > 1
    /\ \/ RuneIsLower(chars[k - 1])
       \/ (k < Len(chars) /\ RuneIsLower(chars[k + 1]))
ByTheRule(chars) ==
    Flatten([k \in 1..Len(chars) |->
               (IF UnderscoreBefore(chars, k) THEN <<"_">> ELSE <<>>)
               \o RuneToLower(chars[k])])

(* C24: toParamName applied to its own output gives that output; the output
   has no upper-case letter; LogFile, UserID, OOMReason, HTTPConfig and
   EnableTLSV12Support give log_file, user_id, oom_reason, http_config and
   enable_tlsv12_support; and the output is the identifier in lower case
   with '_' before exactly the upper-case letters that are not first and
   have a lower-case letter before or after them. *)
C24_ToParamName ==
    got.op = "toParamName" =>
        /\ toParamName(got.out) = got.out
        /\ \A r \in Range(Runes(got.out)) : ~RuneIsUpper(r)
        /\ got.text = sLogFile => got.out = <<"l","o","g","_","f","i","l","e">>
        /\ got.text = sUserID => got.out = <<"u","s","e","r","_","i","d">>
        /\ got.text = sOOMReason => got.out = <<"o","o","m","_","r","e","a","s","o","n">>
        /\ got.text = sHTTPConfig =>
              got.out = <<"h","t","t","p","_","c","o","n","f","i","g">>
        /\ got.text = sEnableTLSV12Support =>
              got.out = <<"e","n","a","b","l","e","_","t","l","s","v","1","2",
                          "_","s","u","p","p","o","r","t">>
        /\ got.out = ByTheRule(got.chars)

\* The quoted substrings of s, each from its opening to its closing quote:
\* the quotes not preceded by an odd number of backslashes, paired in order.
\* open is the position of the quote that is open (0: none).
RECURSIVE QuotedFrom(_, _, _, _)
QuotedFrom(s, i, escaped, open) ==
    IF i > Len(s) THEN {}
    ELSE IF s[i] = "\\" THEN QuotedFrom(s, i + 1, ~escaped, open)
    ELSE IF s[i] = "\"" /\ ~escaped
    THEN (IF open = 0 THEN QuotedFrom(s, i + 1, FALSE, i)
          ELSE {[from |-> open, to |-> i]} \cup QuotedFrom(s, i + 1, FALSE, 0))
    ELSE QuotedFrom(s, i + 1, FALSE, open)
Quoted(s) == QuotedFrom(s, 1, FALSE, 0)

\* The parenthesized groups of s, each from a '(' to the ')' that closes it;
\* opens holds the positions of the '(' not yet closed, and a ')' that
\* closes nothing belongs to no group.
RECURSIVE GroupsFrom(_, _, _)
GroupsFrom(s, i, opens) ==
    IF i > Len(s) THEN {}
    ELSE IF s[i] = "(" THEN GroupsFrom(s, i + 1, Append(opens, i))
    ELSE IF s[i] = ")" /\ opens # <<>>
    THEN {[from |-> opens[Len(opens)], to |-> i]}
         \cup GroupsFrom(s, i + 1, SubSeq(opens, 1, Len(opens) - 1))
    ELSE GroupsFrom(s, i + 1, opens)
Groups(s) == GroupsFrom(s, 1, <<>>)

\* The positions of s at which it was split to give parts: every part but
\* the last is followed by the separator it was split at.
RECURSIVE SplitAt(_, _, _)
SplitAt(parts, k, before) ==
    IF k > Len(parts) THEN {}
    ELSE {before + Len(parts[k]) + 1} \cup SplitAt(parts, k + 1, before + Len(parts[k]) + 1)
Unsplit(s, parts, spans) ==
    \A span \in spans : \A at \in SplitAt(parts, 1, 0) \cap (1..Len(s)) :
        ~(span.from < at /\ at < span.to)

(* C28: specialSplit(s, ' ', true, true) splits s at no separator inside a
   substring between two unescaped double quotes and at none inside a group
   from a '(' to the ')' that closes it, whatever else s holds. *)
C28_NeverSplitsInside ==
    got.op = "specialSplit" =>
        /\ Unsplit(got.text, got.parts, Quoted(got.text))
        /\ Unsplit(got.text, got.parts, Groups(got.text))

\* The tokens of a tag as it was put together: bare ones and key=value ones,
\* with the key and the value text of the latter (the text after the first
\* '=', without surrounding double quotes).
IsBare(token) == ~Contains(token, "=")
KeyOf(token) == SubSeq(token, 1, Min({i \in 1..Len(token) : token[i] = "="}) - 1)
RawValueOf(token) ==
    SubSeq(token, Min({i \in 1..Len(token) : token[i] = "="}) + 1, Len(token))
Unquoted(text) ==
    IF Len(text) >= 2 /\ text[1] = "\"" /\ text[Len(text)] = "\""
    THEN SubSeq(text, 2, Len(text) - 1)
    ELSE text
ValueOf(token) == Unquoted(RawValueOf(token))

\* The bare non-empty tokens, and for a key the last token that gives it.
BareAt(tokens) == {i \in 1..Len(tokens) : IsBare(tokens[i]) /\ tokens[i] # <<>>}
FirstBare(tokens) == IF BareAt(tokens) = {} THEN <<>> ELSE tokens[Min(BareAt(tokens))]
Given(tokens) ==
    {i \in 1..Len(tokens) :
        /\ ~IsBare(tokens[i])
        /\ \A j \in (i + 1)..Len(tokens) :
              IsBare(tokens[j]) \/ KeyOf(tokens[j]) # KeyOf(tokens[i])}

BooleanKeys ==
    {sPositional, sRequired, sLast, sLeftovers, sAllowHyphenValues,
     sAllowNegativeNumbers, sGroupOccurrences}
ListKeys == {sAliases, sRequires, sConflictsWith, sRequiredWithout, sRequiredWithoutAll}
\* The keys ParseTag has a rule of its own for.
ProcessedKeys == {sType, sRequiredIfEq, sRequiredIfEqAll, sPlaceholder, sPlaceholders}

NameAsStated == got.name = FirstBare(got.tokens)
BooleansAsStated ==
    \A i \in Given(got.tokens) :
        KeyOf(got.tokens[i]) \in BooleanKeys =>
            got.options[KeyOf(got.tokens[i])] = OptBool(ValueOf(got.tokens[i]) = sTrue)
ListsAsStated ==
    \A i \in Given(got.tokens) :
        KeyOf(got.tokens[i]) \in ListKeys =>
            got.options[KeyOf(got.tokens[i])] = OptList(Split(ValueOf(got.tokens[i]), ","))
ExampleAsStated ==
    got.tokens = ExampleTokens =>
        /\ got.name = sFlagName
        /\ got.options = (sRequired :> OptBool(TRUE)) @@ (sType :> OptString(sString))
                          @@ (sAliases :> OptList(<<<<"f">>, <<"f","n">>>>))
\* The options stored under the keys of a set are the value texts.
StoredAsText(keys) ==
    \A i \in Given(got.tokens) :
        KeyOf(got.tokens[i]) \in keys =>
            /\ KeyOf(got.tokens[i]) \in DOMAIN got.options
            /\ got.options[KeyOf(got.tokens[i])] = OptString(ValueOf(got.tokens[i]))
OtherKeys == {KeyOf(got.tokens[i]) : i \in Given(got.tokens)} \ (BooleanKeys \cup ListKeys)

(* C29: ParseTag returns as name the first bare non-empty token and ignores
   later bare tokens; a boolean key is stored as true iff its value text is
   exactly true; a list key is stored as its value text split on commas; the
   keys type, required_if_eq, required_if_eq_all, placeholder and
   placeholders have rules of their own (type=enum(a,b) is stored as type
   "enum" with the values a, b; type=string as "string"); every other key is
   stored as its value text.  The value text is what follows the first '=',
   without surrounding double quotes.  The example tag gives flag-name and
   {required: true, type: "string", aliases: [f, fn]}. *)
C29_ParseTag ==
    got.op = "ParseTag" =>
        /\ NameAsStated
        /\ BooleansAsStated
        /\ ListsAsStated
        /\ ExampleAsStated
        /\ StoredAsText(OtherKeys \ ProcessedKeys)
        /\ \A i \in Given(got.tokens) :
              KeyOf(got.tokens[i]) = sType =>
                 IF ValueOf(got.tokens[i]) = <<"e","n","u","m","(","a",",","b",")">>
                 THEN /\ got.options[sType] = OptString(sEnum)
                      /\ got.options[sValues] = OptList(<<<<"a">>, <<"b">>>>)
                 ELSE got.options[sType] = OptString(ValueOf(got.tokens[i]))

\* The claim as stated: every key that is neither a boolean key nor a list
\* key, type included, is stored as the raw string.
C29_OtherKeysRaw ==
    got.op = "ParseTag" =>
        /\ NameAsStated
        /\ BooleansAsStated
        /\ ListsAsStated
        /\ ExampleAsStated
        /\ StoredAsText(OtherKeys)

\* The example tag was parsed.
C29_Witness ==
    /\ got.op = "ParseTag"
    /\ got.tokens = ExampleTokens
    /\ got.name = sFlagName
    /\ got.options[sRequired] = OptBool(TRUE)
    /\ DOMAIN got.options = {sRequired, sType, sAliases}

\* A later bare token was ignored and a boolean key with the value TRUE was
\* stored as false.
C29_WitnessFalse ==
    /\ got.op = "ParseTag"
    /\ got.tokens = <<<<"n">>, <<"r","e","q","u","i","r","e","d","=","T","R","U","E">>, <<"m">>>>
    /\ got.name = <<"n">>
    /\ got.options[sRequired] = OptBool(FALSE)

(* C30: for separator '-' or '_' the result of SanitizeArgName holds only
   letters that are not upper case, digits and the separator; it neither
   starts nor ends with the separator and has no two separators in a row; it
   is empty only when the input has no letter and no digit; and sanitizing
   it again gives itself. *)
C30_Sanitized ==
    got.op = "SanitizeArgName" =>
        \A out \in {Runes(got.out)} :
            /\ \A k \in 1..Len(out) :
                  \/ RuneIsLower(out[k])
                  \/ RuneIsNumber(out[k])
                  \/ out[k] = <<got.separator>>
            /\ out # <<>> => out[1] # <<got.separator>> /\ out[Len(out)] # <<got.separator>>
            /\ \A k \in 1..(Len(out) - 1) :
                  ~(out[k] = <<got.separator>> /\ out[k + 1] = <<got.separator>>)
            /\ out = <<>> =>
                  \A k \in 1..Len(got.chars) :
                      ~RuneIsLetter(got.chars[k]) /\ ~RuneIsNumber(got.chars[k])
            /\ SanitizeArgName(got.out, got.separator) = got.out

\* A name with special characters at its start, in a run in its middle and
\* at its end, and with upper-case letters, was sanitized.
C30_Witness ==
    /\ got.op = "SanitizeArgName"
    /\ got.separator = "-"
    /\ got.chars = <<<<"_">>, UpperEAcute, <<"_">>, <<"-">>>>
    /\ got.out = LowerEAcute

\* Special characters in the middle became one separator.
C30_WitnessMiddle ==
    /\ got.op = "SanitizeArgName"
    /\ got.separator = "_"
    /\ got.text = <<"B", "-", "-", "1">>
    /\ got.out = <<"b", "_", "1">>

\* The keys of the store's map for a base and a shape (twelve maps in all).
KeysOf(base, shape) ==
    CASE shape = "scalar" -> DOMAIN SinglesOfBase(base)
      [] shape = "sequence" -> DOMAIN SlicesOfBase(base)
      [] OTHER -> DOMAIN GroupsOfBase(base)
ShapeOfOp(op) ==
    CASE op = "Get" -> "scalar"
      [] op = "GetSlice" -> "sequence"
      [] OTHER -> "group"

(* C27: in the store a successful ParseArgs returned, the keys of
   declaredArgs are the lower-cased names of the list, each with the parsed
   descriptor of that name; each such name is a key of the map of its
   declared base (string for an unknown base) and shape and of no other of
   the twelve maps, which have no other keys; this is so too when a name is
   listed twice or in two cases; and an accessor finds a name in whatever
   case it is asked for. *)
C27_OneEntryOneMap ==
    HaveArgs =>
        /\ got = NoCall =>
              /\ DOMAIN args.declaredArgs = Listed
              /\ \A n \in Listed :
                    args.declaredArgs[n] = parseTypeInfo(DescOf(n)).typeInfo
              /\ \A base \in KnownBases, shape \in {"scalar", "sequence", "group"} :
                    KeysOf(base, shape) =
                        {n \in Listed : DeclaredBase(n) = base /\ DeclaredShape(n) = shape}
        /\ (got # NoCall /\ got.op \in {"Get", "GetSlice", "GetGroups"}) =>
              got.ok = (ToLower(got.name) \in KeysOf(BaseOfKind(got.kind), ShapeOfOp(got.op)))

\* The list names a once in upper and once in lower case; the store has the
\* one entry a, and GetString("A") finds it.
C27_Witness ==
    /\ HaveArgs
    /\ env[ListKey] = <<"A", "\t", "a">>
    /\ DOMAIN args.declaredArgs = {nA}
    /\ DOMAIN args.strings = {nA}
    /\ got # NoCall
    /\ got.op = "Get"
    /\ got.kind = "String"
    /\ got.name = <<"A">>
    /\ got.ok

(* C26: Fill returns, nil or an error, for every store and every struct
   type, those included that refer to themselves directly or indirectly
   through a pointer-to-struct field. *)
C26_FillReturns ==
    (fill # NoCall /\ fill.op = "FillSelf") => fill.returned

(* C25: Fill binds in declaration order, depth-first, FillAll in argument   *)
(* order, and both stop at the first error without rollback.                *)

\* The terminal fields of a struct type in the order of the declarations,
\* depth-first: each with the steps that lead to it from the struct (the
\* field index, and whether the field is a pointer to follow), its name in
\* the store, its type and the identifiers of its ancestor fields.
RECURSIVE TerminalsOf(_, _, _, _, _)
TerminalsOf(structType, prefix, steps, ancestors, i) ==
    IF i > Len(structType.fields) THEN <<>>
    ELSE LET field == structType.fields[i]
             name == prefix \o SanitizeArgName(fieldArgName(field), "_")
             step == [i |-> i, ptr |-> field.Type.k = "ptr"]
             here == IF ~CanSet(field) \/ (field.hasTag /\ field.tag = sDash) THEN <<>>
                     ELSE IF IsEmbedded(field.Type)
                             /\ SanitizeArgName(fieldArgName(field), "_") # <<>>
                     THEN TerminalsOf(IF field.Type.k = "ptr" THEN field.Type.elem
                                      ELSE field.Type,
                                      name \o <<"_">>, Append(steps, step),
                                      Append(ancestors, field.Name), 1)
                     ELSE <<[steps |-> Append(steps, step), name |-> name,
                             type |-> field.Type, ancestors |-> ancestors]>>
         IN here \o TerminalsOf(structType, prefix, steps, ancestors, i + 1)

\* The targets of the call, in argument order.
TargetsOfCall ==
    IF fill.op = "FillAll" THEN fill.targets
    ELSE <<[type |-> fill.type, addr |-> fill.addr]>>

\* The terminal fields of target k, each with its target.
TerminalsOfTarget(k) ==
    [j \in 1..Len(TerminalsOf(TargetsOfCall[k].type, <<>>, <<>>, <<>>, 1)) |->
        [target |-> k] @@ TerminalsOf(TargetsOfCall[k].type, <<>>, <<>>, <<>>, 1)[j]]

RECURSIVE TerminalsFrom(_)
TerminalsFrom(k) ==
    IF k > Len(TargetsOfCall) THEN <<>>
    ELSE TerminalsOfTarget(k) \o TerminalsFrom(k + 1)

\* The value of the terminal field the steps lead to from the struct value v
\* in the heap h; Absent when a pointer on the way is nil.
Absent == [absent |-> TRUE]
RECURSIVE ReadAlong(_, _, _)
ReadAlong(h, v, steps) ==
    IF Len(steps) = 1 THEN v.f[steps[1].i]
    ELSE IF ~steps[1].ptr THEN ReadAlong(h, v.f[steps[1].i], Tail(steps))
    ELSE IF v.f[steps[1].i].nil THEN Absent
    ELSE ReadAlong(h, Load(h, v.f[steps[1].i].addr, PathOf(v.f[steps[1].i])), Tail(steps))

ReadNow(t) == ReadAlong(heap, heap[TargetsOfCall[t.target].addr], t.steps)
ReadBefore(t) == ReadAlong(fill.start, fill.start[TargetsOfCall[t.target].addr], t.steps)

\* The field holds the data of the store.
HoldsBound(t) ==
    /\ ReadNow(t) # Absent
    /\ FieldHolds([val |-> ReadNow(t), type |-> t.type, name |-> t.name])

\* The field is as it was at the call: where a pointer on the way was nil
\* and no longer is, the field of the new struct is zero.
Unmodified(t) ==
    \/ ReadNow(t) = ReadBefore(t)
    \/ ReadBefore(t) = Absent /\ ReadNow(t) = Zero(t.type)

\* The identifiers an error chain wraps the error of a nested struct with,
\* from the outermost.
RECURSIVE WrappedWith(_)
WrappedWith(e) ==
    IF "wrapped" \notin DOMAIN e THEN <<>>
    ELSE IF e.msg = "error in embedded struct"
    THEN <<e.subject>> \o WrappedWith(e.wrapped)
    ELSE WrappedWith(e.wrapped)

NamesOf(ts, n) == [j \in 1..n |-> ts[j].name]

\* The call failed on terminal field k of ts.
FailedAt(ts, k) ==
    /\ \A j \in 1..(k - 1) : HoldsBound(ts[j])
    /\ \A j \in k..Len(ts) : Unmodified(ts[j])
    /\ \A n \in (ts[k].target + 1)..Len(TargetsOfCall) :
          heap[TargetsOfCall[n].addr] = fill.start[TargetsOfCall[n].addr]
    /\ fill.looked \in {NamesOf(ts, k), NamesOf(ts, k - 1)}
    /\ WrappedWith(fill.err) = ts[k].ancestors

\* C25: when Fill or FillAll has returned, the names were looked up in the
\* order of the targets and of the declarations, depth-first; when it
\* returned an error, there is a terminal field in that order that every
\* field before holds its bound value, that field and every field after it
\* is as it was at the call, every later target is untouched, and the
\* error is wrapped with the identifiers of the ancestors of that field,
\* from the outermost; when it returned no error every field holds its
\* bound value.
C25_InOrderNoRollback ==
    (fill.op \in {"Fill", "FillAll"} /\ ~fill.wrote) =>
        \A ts \in {TerminalsFrom(1)} :
            IF fill.err = NoError
            THEN /\ fill.looked = NamesOf(ts, Len(ts))
                 /\ \A j \in 1..Len(ts) : HoldsBound(ts[j])
            ELSE \E k \in 1..Len(ts) : FailedAt(ts, k)

\* Reached: FillAll failed on the second field of its second target, after
\* it had bound a field of each target.
C25_Witness ==
    /\ fill.op = "FillAll"
    /\ fill.set
    /\ fill.err # NoError
    /\ Len(fill.looked) = 4
    /\ \E ts \in {TerminalsFrom(1)} :
          /\ Len(ts) = 4
          /\ FailedAt(ts, 4)
          /\ ReadNow(ts[3]) # ReadBefore(ts[3])
          /\ ReadNow(ts[4]) # Zero(ts[4].type)

\* Reached: Fill failed on the second field of a nested struct after it had
\* bound the first, and the error names the ancestor.
C25_WitnessNested ==
    /\ fill.op = "Fill"
    /\ fill.err # NoError
    /\ WrappedWith(fill.err) = <<<<"A">>>>
    /\ \E ts \in {TerminalsFrom(1)} :
          /\ Len(ts) = 3
          /\ FailedAt(ts, 2)
          /\ ReadNow(ts[1]) # ReadBefore(ts[1])

(* C8: when a field's tag has a name override, Fill looks the field up      *)
(* under prefix + SanitizeArgName(override, '_'), the override being the    *)
(* first bare token of the tag: key=value options after it do not change    *)
(* the name.                                                                *)
C8_OverrideWins ==
    (/\ fill.op = "Fill"
     /\ \A f \in FieldsOf(fill.type) : f.hasTag => Override(f) \notin {<<>>, sDash}
     /\ \E f \in FieldsOf(fill.type) : f.hasTag /\ CanSet(f))
    => LookedUpAsNamed

(* C9: a field whose tag has no name override (an empty tag, or a tag of    *)
(* key=value options only) is bound under the name derived from its         *)
(* identifier, as if it had no tag.                                         *)
C9_NoOverrideDerives ==
    (/\ fill.op = "Fill"
     /\ \A f \in FieldsOf(fill.type) : f.hasTag => Override(f) = <<>>
     /\ \E f \in FieldsOf(fill.type) : f.hasTag /\ CanSet(f))
    => LookedUpAsNamed

(* C10: Fill never reads the store for, never writes to and never fails     *)
(* because of a field that is unexported or whose tag has the name override *)
(* `-`, whatever else the tag holds: such a field keeps the value it had.   *)
C10_SkippedUntouched ==
    (/\ fill.op = "Fill"
     /\ \A f \in FieldsOf(fill.type) : f.hasTag => Override(f) = sDash \/ ~CanSet(f)
     /\ \E f \in FieldsOf(fill.type) : Skipped(f))
    => /\ LookedUpAsNamed
       /\ NamesFor(fill.type, <<>>, 1) = <<>> => fill.err = NoError
       /\ \A i \in 1..Len(fill.type.fields) :
             Skipped(fill.type.fields[i]) => heap[fill.addr].f[i] = fill.before.f[i]

====
